---- MODULE Spec2Model ----
(***************************************************************************)
(* Model of the OpenAPI / cURL normalisation and request-template          *)
(* pipeline: openapi_parser.py, curl_parser.py, endpoints/openapi.py and   *)
(* endpoints/curl.py; and of the temporary directories of code_parser.py   *)
(* and endpoints/code.py.                                                  *)
(*                                                                         *)
(* JSON values are tagged records, so that values of different Python      *)
(* types can sit in one collection:                                        *)
(*   None  [t |-> "null"]          str   [t |-> "str",  s |-> "abc"]       *)
(*   int   [t |-> "int", n |-> 3]  bool  [t |-> "bool", b |-> TRUE]        *)
(*   list  [t |-> "list", l |-> <<v1, v2>>]                                *)
(*   dict  [t |-> "dict", d |-> << <<k1, v1>>, <<k2, v2>> >>]              *)
(* A dict keeps its items in insertion order, as a Python dict does.       *)
(* A raised exception is the value [t |-> "raise", exc |-> "KeyError"].    *)
(***************************************************************************)
EXTENDS Integers, Sequences, FiniteSets, TLC

VARIABLES projects, endpoints, version_logs, last, tasks

vars == <<projects, endpoints, version_logs, last, tasks>>
store == <<projects, endpoints, version_logs>>

----------------------------------------------------------------------------
(* Python values *)

None == [t |-> "null"]
S(s) == [t |-> "str", s |-> s]
N(n) == [t |-> "int", n |-> n]
B(b) == [t |-> "bool", b |-> b]
L(l) == [t |-> "list", l |-> l]
D(d) == [t |-> "dict", d |-> d]
Raise(e) == [t |-> "raise", exc |-> e]
EmptyDict == D(<<>>)

IsDict(v) == v.t = "dict"
IsStr(v) == v.t = "str"
IsRaise(v) == v.t = "raise"

\* k in v, for a dict v
Has(v, k) == \E i \in 1..Len(v.d) : v.d[i][1] = k

\* v[k], for a dict v that has k
Get(v, k) == v.d[CHOOSE i \in 1..Len(v.d) : v.d[i][1] = k][2]

\* v.get(k, dflt)
GetOr(v, k, dflt) == IF Has(v, k) THEN Get(v, k) ELSE dflt

\* v.get(k)
GetNone(v, k) == GetOr(v, k, None)

\* v[k] = x: an existing key keeps its position, a new key goes last
Put(v, k, x) ==
    IF Has(v, k)
    THEN D([i \in 1..Len(v.d) |-> IF v.d[i][1] = k THEN <<k, x>> ELSE v.d[i]])
    ELSE D(Append(v.d, <<k, x>>))

\* list(v.keys())
Keys(v) == [i \in 1..Len(v.d) |-> v.d[i][1]]
KeySet(v) == {v.d[i][1] : i \in 1..Len(v.d)}

\* x in l, for a list l
InList(l, x) == \E i \in 1..Len(l.l) : l.l[i] = x

\* bool(v)
Truthy(v) ==
    CASE v.t = "null" -> FALSE
      [] v.t = "str" -> v.s # ""
      [] v.t = "int" -> v.n # 0
      [] v.t = "bool" -> v.b
      [] v.t = "list" -> Len(v.l) > 0
      [] v.t = "dict" -> Len(v.d) > 0
      [] OTHER -> TRUE

\* {k: x for k, x in v.items() if x is not None}
DropNone(v) == D(SelectSeq(v.d, LAMBDA kv : kv[2] # None))

----------------------------------------------------------------------------
(* str methods *)

StartsWith(s, p) == Len(s) >= Len(p) /\ SubSeq(s, 1, Len(p)) = p
EndsWith(s, p) == Len(s) >= Len(p) /\ SubSeq(s, Len(s) - Len(p) + 1, Len(s)) = p
CharAt(s, i) == IF i >= 1 /\ i <= Len(s) THEN SubSeq(s, i, i) ELSE ""

\* the least of a set of indexes, or none when there is no index
Least(indexes, none) ==
    IF indexes = {} THEN none ELSE CHOOSE i \in indexes : \A j \in indexes : i <= j

\* the least index >= from where sep (one character) stands in s, or 0
IndexFrom(s, sep, from) == Least({i \in from..Len(s) : CharAt(s, i) = sep}, 0)

\* s.split(sep), sep one character
RECURSIVE Split(_, _)
Split(s, sep) ==
    LET i == IndexFrom(s, sep, 1)
    IN IF i = 0 THEN <<s>>
       ELSE <<SubSeq(s, 1, i - 1)>> \o Split(SubSeq(s, i + 1, Len(s)), sep)

\* sep.join(parts)
RECURSIVE Join(_, _)
Join(parts, sep) ==
    IF Len(parts) = 0 THEN ""
    ELSE IF Len(parts) = 1 THEN parts[1]
    ELSE parts[1] \o sep \o Join(Tail(parts), sep)

\* the least index >= from where p starts in s, or 0
Find(s, p, from) ==
    Least({i \in from..(Len(s) - Len(p) + 1) : SubSeq(s, i, i + Len(p) - 1) = p}, 0)

\* p in s (substring)
Contains(s, p) == \E i \in 1..(Len(s) - Len(p) + 1) : SubSeq(s, i, i + Len(p) - 1) = p

----------------------------------------------------------------------------
(* Python objects: a value and the place it lives at.  The objects of a    *)
(* parsed document live in the document, at the keys that lead to them; an *)
(* object built by the code ({} or a dict display) is fresh.  A store into *)
(* an object that lives in the document changes the document.              *)

Fresh == [fresh |-> TRUE, path |-> <<>>]
At(path) == [fresh |-> FALSE, path |-> path]
Obj(v, loc) == [val |-> v, loc |-> loc]
New(v) == Obj(v, Fresh)

\* o[k], for a dict o that has k: the member lives where its parent does
Member(o, k) ==
    Obj(Get(o.val, k), IF o.loc.fresh THEN Fresh ELSE At(Append(o.loc.path, k)))

\* o.get(k, {})
MemberOrEmpty(o, k) == IF Has(o.val, k) THEN Member(o, k) ELSE New(EmptyDict)

\* the document with the object at path replaced by x
RECURSIVE SetAt(_, _, _)
SetAt(doc, path, x) ==
    IF Len(path) = 0 THEN x
    ELSE Put(doc, path[1], SetAt(Get(doc, path[1]), Tail(path), x))

\* o[k] = x: the object after the store, and the document after it
StoreItem(doc, o, k, x) ==
    [obj |-> Obj(Put(o.val, k, x), o.loc),
     doc |-> IF o.loc.fresh THEN doc ELSE SetAt(doc, o.loc.path, Put(o.val, k, x))]

----------------------------------------------------------------------------
(* openapi_parser.resolve_ref *)

\* obj[key]
Subscript(o, key) ==
    IF ~IsDict(o.val) THEN New(Raise("TypeError"))
    ELSE IF ~Has(o.val, key) THEN New(Raise("KeyError"))
    ELSE Member(o, key)

\* line 18: isinstance(ref_obj, dict) and part in ref_obj
ref_part_found(ref_obj, part) == IsDict(ref_obj.val) /\ Has(ref_obj.val, part)

\* a slip at line 24: the last object is returned whatever its type
ref_result_unchecked(ref_obj) == ref_obj

\* line 24: ref_obj if isinstance(ref_obj, dict) else {}
ref_result(ref_obj) == IF IsDict(ref_obj.val) THEN ref_obj ELSE New(EmptyDict)

\* lines 17-24: the walk over parts[i..], from ref_obj
RECURSIVE ref_walk(_, _, _)
ref_walk(parts, i, ref_obj) ==
    IF IsRaise(ref_obj.val) THEN ref_obj
    ELSE IF i > Len(parts) THEN ref_result(ref_obj)
    ELSE IF ref_part_found(ref_obj, parts[i])
         THEN ref_walk(parts, i + 1, Subscript(ref_obj, parts[i]))
         ELSE New(EmptyDict)

\* resolve_ref, with the place of the object it returns
resolve_ref_obj(ref, openapi_spec) ==
    IF ~StartsWith(ref, "#/") THEN New(EmptyDict)
    ELSE ref_walk(Split(SubSeq(ref, 3, Len(ref)), "/"), 1, Obj(openapi_spec, At(<<>>)))

resolve_ref(ref, openapi_spec) == resolve_ref_obj(ref, openapi_spec).val

----------------------------------------------------------------------------
(* openapi_parser.extract_schema_properties *)

\* lines 28-31: a schema that is a $ref is replaced by what it resolves to,
\* unless that is empty
esp_schema(schema, openapi_spec) ==
    LET choose(resolved_schema) ==
            IF Truthy(resolved_schema.val) THEN resolved_schema ELSE schema
    IN IF Has(schema.val, "$ref")
       THEN choose(resolve_ref_obj(Get(schema.val, "$ref").s, openapi_spec))
       ELSE schema

\* a slip at line 35: the result is the schema's own properties object
esp_result_shared(props) == props

\* line 35: result = {}
esp_result(props) == New(EmptyDict)

\* lines 39-40: resolve_ref(prop_schema["$ref"], openapi_spec) or prop_schema
esp_prop_schema(prop_schema, openapi_spec) ==
    LET choose(resolved) == IF Truthy(resolved) THEN resolved ELSE prop_schema
    IN IF Has(prop_schema, "$ref")
       THEN choose(resolve_ref(Get(prop_schema, "$ref").s, openapi_spec))
       ELSE prop_schema

esp_required_always(prop_name, required) == B(TRUE)

\* line 44: prop_name in required
esp_required(prop_name, required) == B(InList(required, S(prop_name)))

\* lines 42-55: the descriptor of one property, None values dropped
esp_descriptor(prop_name, prop_schema, required) ==
    DropNone(D(<< <<"type", GetOr(prop_schema, "type", S("string"))>>,
                  <<"required", esp_required(prop_name, required)>>,
                  <<"title", GetOr(prop_schema, "title", S(prop_name))>>,
                  <<"format", GetNone(prop_schema, "format")>>,
                  <<"minLength", GetNone(prop_schema, "minLength")>>,
                  <<"maxLength", GetNone(prop_schema, "maxLength")>>,
                  <<"minimum", GetNone(prop_schema, "minimum")>>,
                  <<"maximum", GetNone(prop_schema, "maximum")>>,
                  <<"pattern", GetNone(prop_schema, "pattern")>>,
                  <<"description", GetNone(prop_schema, "description")>> >>))

\* lines 37-55: the loop over props.items() from its i-th item
RECURSIVE esp_loop(_, _, _, _, _)
esp_loop(items, i, required, result, openapi_spec) ==
    IF i > Len(items) THEN [result |-> result, openapi_spec |-> openapi_spec]
    ELSE LET prop_name == items[i][1]
             prop_schema == esp_prop_schema(items[i][2], openapi_spec)
             after(st) == esp_loop(items, i + 1, required, st.obj, st.doc)
         IN after(StoreItem(openapi_spec, result, prop_name,
                            esp_descriptor(prop_name, prop_schema, required)))

\* extract_schema_properties(schema, openapi_spec): the result object, and the
\* document as the call leaves it
extract_schema_properties(schema, openapi_spec) ==
    LET loop(props, required) ==
            esp_loop(props.val.d, 1, required, esp_result(props), openapi_spec)
        of(sch) == loop(MemberOrEmpty(sch, "properties"), GetOr(sch.val, "required", L(<<>>)))
    IN of(esp_schema(schema, openapi_spec))

----------------------------------------------------------------------------
(* str.lower, str.upper *)

UpperLetters == "ABCDEFGHIJKLMNOPQRSTUVWXYZ"
LowerLetters == "abcdefghijklmnopqrstuvwxyz"

LowerChar(c) ==
    LET i == IndexFrom(UpperLetters, c, 1)
    IN IF i = 0 THEN c ELSE CharAt(LowerLetters, i)

UpperChar(c) ==
    LET i == IndexFrom(LowerLetters, c, 1)
    IN IF i = 0 THEN c ELSE CharAt(UpperLetters, i)

RECURSIVE Lower(_)
Lower(s) == IF Len(s) = 0 THEN "" ELSE LowerChar(CharAt(s, 1)) \o Lower(SubSeq(s, 2, Len(s)))

RECURSIVE Upper(_)
Upper(s) == IF Len(s) = 0 THEN "" ELSE UpperChar(CharAt(s, 1)) \o Upper(SubSeq(s, 2, Len(s)))

----------------------------------------------------------------------------
(* json.dumps, json.loads: a text is its syntax and the value it denotes *)

Text(syntax, value) == [t |-> "text", syntax |-> syntax, value |-> value]

json_dumps(v) == Text("json", v)

json_loads(text) == IF text.syntax = "json" THEN text.value ELSE Raise("JSONDecodeError")

----------------------------------------------------------------------------
(* ai_service.generate_description: the collaborator answers (ok) or fails, *)
(* and a failure is caught and turned into a text                          *)

AiText == "Creates or reads the resource."
AiFallback == "(AI description unavailable: Connection error.)"

generate_description_raising(ok) == IF ok THEN S(AiText) ELSE Raise("APIConnectionError")

generate_description(ok) == S(IF ok THEN AiText ELSE AiFallback)

----------------------------------------------------------------------------
(* openapi_parser.extract_endpoints *)

HttpVerbs == {"get", "post", "put", "delete", "patch", "head", "options"}

\* the state of one operation's extraction: request_body (rb), the place of
\* the object under its "fields" key (floc), the document, an exception
EeState(rb, floc, doc, exc) == [rb |-> rb, floc |-> floc, doc |-> doc, exc |-> exc]

EeRaise(st, e) == [st EXCEPT !.exc = Raise(e)]

ee_last_content(content) == content.d[Len(content.d)]

\* lines 86, 96: the loop over content.items() breaks after its first turn
ee_first_content(content) == content.d[1]

\* lines 83-96: the requestBody of the operation at oploc; only the first
\* entry of content is read
ee_request_body(details, oploc, openapi_spec) ==
    LET st0 == EeState(EmptyDict, Fresh, openapi_spec, None)
    IN IF ~Has(details, "requestBody") THEN st0
       ELSE LET request_body_info == Get(details, "requestBody")
            IN IF ~IsDict(request_body_info) THEN EeRaise(st0, "AttributeError")
               ELSE LET content == GetOr(request_body_info, "content", EmptyDict)
                    IN IF ~IsDict(content) THEN EeRaise(st0, "AttributeError")
                       ELSE IF Len(content.d) = 0 THEN st0
                       ELSE LET content_type == ee_first_content(content)[1]
                                media_type == ee_first_content(content)[2]
                            IN IF ~IsDict(media_type) THEN EeRaise(st0, "AttributeError")
                               ELSE LET schema ==
                                            IF Has(media_type, "schema")
                                            THEN Obj(Get(media_type, "schema"),
                                                     At(oploc \o <<"requestBody", "content",
                                                                   content_type, "schema">>))
                                            ELSE New(EmptyDict)
                                        with(r) ==
                                            EeState(
                                              D(<< <<"content_type", S(content_type)>>,
                                                   <<"required",
                                                     GetOr(request_body_info, "required",
                                                           B(FALSE))>>,
                                                   <<"fields", r.result.val>> >>),
                                              r.result.loc, r.openapi_spec, None)
                                    IN with(extract_schema_properties(schema, openapi_spec))

\* lines 110-127: the descriptor of one parameter, None values dropped
ee_param_descriptor(param, name, schema) ==
    DropNone(D(<< <<"type", GetOr(schema, "type", S("string"))>>,
                  <<"in", GetNone(param, "in")>>,
                  <<"required", GetOr(param, "required", B(FALSE))>>,
                  <<"title", GetOr(schema, "title", name)>>,
                  <<"description", GetNone(param, "description")>>,
                  <<"format", GetNone(schema, "format")>>,
                  <<"minimum", GetNone(schema, "minimum")>>,
                  <<"maximum", GetNone(schema, "maximum")>>,
                  <<"minLength", GetNone(schema, "minLength")>>,
                  <<"maxLength", GetNone(schema, "maxLength")>>,
                  <<"pattern", GetNone(schema, "pattern")>> >>))

\* lines 103-127: the loop over details["parameters"] from its i-th entry;
\* request_body["fields"][name] = ... stores into the fields object
RECURSIVE ee_param_loop(_, _, _)
ee_param_loop(params, i, st) ==
    IF i > Len(params) \/ st.exc # None THEN st
    ELSE LET param == params[i]
         IN IF ~IsDict(param) THEN EeRaise(st, "AttributeError")
            ELSE LET name == GetNone(param, "name")
                     schema == GetOr(param, "schema", EmptyDict)
                 IN IF ~IsDict(schema) THEN EeRaise(st, "AttributeError")
                    ELSE IF ~Truthy(name) THEN ee_param_loop(params, i + 1, st)
                    ELSE LET after(w) ==
                                 ee_param_loop(params, i + 1,
                                    EeState(Put(st.rb, "fields", w.obj.val), st.floc, w.doc, None))
                         IN after(StoreItem(st.doc, Obj(Get(st.rb, "fields"), st.floc),
                                            name.s, ee_param_descriptor(param, name, schema)))

\* lines 99-101: parameters are merged into request_body["fields"], which is
\* created when there is none
ee_parameters(details, st) ==
    IF st.exc # None \/ ~Has(details, "parameters") THEN st
    ELSE LET params == Get(details, "parameters")
             merge(st1) == IF params.t # "list" THEN EeRaise(st1, "TypeError")
                           ELSE ee_param_loop(params.l, 1, st1)
         IN merge(IF Has(st.rb, "fields") THEN st
                  ELSE EeState(Put(st.rb, "fields", EmptyDict), Fresh, st.doc, None))

\* line 130: "security" in details and len(details["security"]) > 0
ee_requires_auth(details) ==
    IF ~Has(details, "security") THEN B(FALSE)
    ELSE LET length(sec) ==
                 CASE sec.t = "list" -> B(Len(sec.l) > 0)
                   [] sec.t = "dict" -> B(Len(sec.d) > 0)
                   [] sec.t = "str" -> B(Len(sec.s) > 0)
                   [] OTHER -> Raise("TypeError")
         IN length(Get(details, "security"))

\* lines 75-141, one operation: the Endpoint added to the session (endpoint),
\* the document after it (doc), an exception (exc)
ee_operation(openapi_spec, project_id, path, method, ai_ok) ==
    LET details == Get(Get(Get(openapi_spec, "paths"), path), method)
        summary == generate_description(ai_ok)
    IN IF ~IsDict(details)
       THEN [endpoint |-> None, doc |-> openapi_spec, exc |-> Raise("TypeError")]
       ELSE LET add(st, requires_auth) ==
                    IF st.exc # None
                    THEN [endpoint |-> None, doc |-> st.doc, exc |-> st.exc]
                    ELSE IF IsRaise(requires_auth)
                    THEN [endpoint |-> None, doc |-> st.doc, exc |-> requires_auth]
                    ELSE [endpoint |->
                             [project_id |-> project_id,
                              path |-> path,
                              method |-> Upper(method),
                              summary |-> summary,
                              requires_auth |-> requires_auth.b,
                              request_body |->
                                  IF Truthy(st.rb) THEN json_dumps(st.rb) ELSE None],
                          doc |-> st.doc, exc |-> None]
            IN add(ee_parameters(details,
                      ee_request_body(details, <<"paths", path, method>>, openapi_spec)),
                   ee_requires_auth(details))

\* lines 73-75: the (path, method) pairs the two loops visit, in document
\* order; a path whose value is no mapping stops the loops with an exception
RECURSIVE ee_methods(_, _, _)
ee_methods(path, items, i) ==
    IF i > Len(items) THEN <<>>
    ELSE (IF Lower(items[i][1]) \in HttpVerbs
          THEN <<[path |-> path, method |-> items[i][1], bad |-> FALSE]>>
          ELSE <<>>) \o ee_methods(path, items, i + 1)

RECURSIVE ee_visits(_, _)
ee_visits(items, i) ==
    IF i > Len(items) THEN <<>>
    ELSE IF ~IsDict(items[i][2])
         THEN <<[path |-> items[i][1], method |-> "", bad |-> TRUE]>>
         ELSE ee_methods(items[i][1], items[i][2].d, 1) \o ee_visits(items, i + 1)

\* the loop body applied to visits[i..]; added are the Endpoints given to
\* session.add so far
RECURSIVE ee_loop(_, _, _, _, _, _)
ee_loop(visits, i, openapi_spec, project_id, ai, added) ==
    IF i > Len(visits) THEN [added |-> added, openapi_json |-> openapi_spec, exc |-> None]
    ELSE IF visits[i].bad
    THEN [added |-> added, openapi_json |-> openapi_spec, exc |-> Raise("AttributeError")]
    ELSE LET after(r) ==
                 IF r.exc # None
                 THEN [added |-> added, openapi_json |-> r.doc, exc |-> r.exc]
                 ELSE ee_loop(visits, i + 1, r.doc, project_id, ai, Append(added, r.endpoint))
         IN after(ee_operation(openapi_spec, project_id, visits[i].path, visits[i].method,
                               i > Len(ai) \/ ai[i]))

\* extract_endpoints(openapi_json, project_id, session); ai[i] tells whether
\* the description collaborator answers for the i-th operation
extract_endpoints(openapi_json, project_id, ai) ==
    LET paths == GetOr(openapi_json, "paths", EmptyDict)
    IN IF ~IsDict(paths)
       THEN [added |-> <<>>, openapi_json |-> openapi_json, exc |-> Raise("AttributeError")]
       ELSE ee_loop(ee_visits(paths.d, 1), 1, openapi_json, project_id, ai, <<>>)

----------------------------------------------------------------------------
(* openapi_parser.parse_openapi_content: json.loads, then yaml.safe_load,  *)
(* then ValueError.  The syntax of a text says which parser accepts it.    *)

parse_openapi_content(content) ==
    IF content.syntax = "json" THEN content.value
    ELSE IF content.syntax = "yaml" THEN content.value
    ELSE Raise("ValueError")

----------------------------------------------------------------------------
(* The store: the committed rows of projects, endpoints and version_logs   *)

\* a slip: the ids of the rows of an upload start at one
WithIdsFromOne(rows, n) == [i \in 1..Len(rows) |-> [id |-> i] @@ rows[i]]

\* rows given an id each, after the n rows a table holds
RECURSIVE WithIds(_, _)
WithIds(rows, n) ==
    IF Len(rows) = 0 THEN <<>>
    ELSE Append(WithIds(SubSeq(rows, 1, Len(rows) - 1), n),
                [id |-> n + Len(rows)] @@ rows[Len(rows)])

EndpointsOf(project_id) == SelectSeq(endpoints, LAMBDA e : e.project_id = project_id)
VersionLogsOf(project_id) == SelectSeq(version_logs, LAMBDA v : v.project_id = project_id)
ProjectsWithId(project_id) == SelectSeq(projects, LAMBDA p : p.id = project_id)

\* an HTTP answer
Response(status, detail) == [status |-> status, detail |-> detail]

----------------------------------------------------------------------------
(* endpoints/openapi.py: upload_openapi, upload_openapi_file               *)

\* v[k] with the exception Python raises
PySubscript(v, k) ==
    IF ~IsDict(v) THEN Raise("TypeError")
    ELSE IF ~Has(v, k) THEN Raise("KeyError")
    ELSE Get(v, k)

\* lines 45-48, 83-86: openapi_json["info"]["title"]
info_title(openapi_json) ==
    LET info == PySubscript(openapi_json, "info")
    IN IF IsRaise(info) THEN info ELSE PySubscript(info, "title")

\* lines 47-48, 85-86: except KeyError answers 400; any other exception
\* leaves the handler and the framework answers 500
title_error_status(exc) == IF exc.exc = "KeyError" THEN 400 ELSE 500

\* session.flush() of the new Project: name and base_url are NOT NULL strings
project_row_ok(name, base_url) == IsStr(name) /\ IsStr(base_url)

\* lines 45-64, 83-102: what both handlers do with the parsed document.
\* The result holds the answer (out) and the three tables after the call.
ingest_openapi(openapi_json, base_url, ai) ==
    LET unchanged == [projects |-> projects, endpoints |-> endpoints,
                      version_logs |-> version_logs]
        commit(project, version_log, r) ==
            IF r.exc # None
            THEN [out |-> [status |-> 500, detail |-> r.exc.exc,
                           openapi_json |-> r.openapi_json]] @@ unchanged
            ELSE [out |-> [status |-> 200, detail |-> "uploaded and parsed",
                           project_id |-> project.id,
                           openapi_json |-> r.openapi_json],
                  projects |-> Append(projects, project),
                  version_logs |-> Append(version_logs, version_log),
                  endpoints |-> endpoints \o WithIds(r.added, Len(endpoints))]
        ingest(project_name) ==
            IF IsRaise(project_name)
            THEN [out |-> Response(title_error_status(project_name), project_name.exc)]
                 @@ unchanged
            ELSE IF ~project_row_ok(project_name, base_url)
            THEN [out |-> Response(500, "IntegrityError")] @@ unchanged
            ELSE commit([id |-> Len(projects) + 1, name |-> project_name.s,
                         base_url |-> base_url.s],
                        [id |-> Len(version_logs) + 1, project_id |-> Len(projects) + 1,
                         raw_openapi |-> json_dumps(openapi_json)],
                        extract_endpoints(openapi_json, Len(projects) + 1, ai))
    IN ingest(info_title(openapi_json))

\* the state after a handler whose result is r
Answer(op, in, result) ==
    \E r \in {result} :
        /\ last' = [op |-> op, in |-> in, out |-> r.out]
        /\ projects' = r.projects
        /\ endpoints' = r.endpoints
        /\ version_logs' = r.version_logs

\* an answer that leaves the store alone
Reject(op, in, status, detail) ==
    /\ last' = [op |-> op, in |-> in, out |-> Response(status, detail)]
    /\ UNCHANGED store

\* lines 22-64.  fetch is what client.get does: it raises RequestError
\* (fetch.error), or answers fetch.status with fetch.text
upload_openapi(fetch, base_url, ai) ==
    LET in == [fetch |-> fetch, base_url |-> base_url, ai |-> ai]
    IN IF fetch.error THEN Reject("upload_openapi", in, 400, "RequestError")
       ELSE IF fetch.status # 200 THEN Reject("upload_openapi", in, 400, "Failed to fetch")
       ELSE \E openapi_json \in {parse_openapi_content(fetch.text)} :
               IF IsRaise(openapi_json)
               THEN Reject("upload_openapi", in, 400, "ValueError")
               ELSE Answer("upload_openapi", in, ingest_openapi(openapi_json, base_url, ai))

\* lines 66-102.  file.decodes tells whether the bytes are UTF-8
upload_openapi_file(file, base_url, ai) ==
    LET in == [file |-> file, base_url |-> base_url, ai |-> ai]
    IN IF ~file.decodes THEN Reject("upload_openapi_file", in, 400, "Could not read file")
       ELSE \E openapi_json \in {parse_openapi_content(file.text)} :
               IF IsRaise(openapi_json)
               THEN Reject("upload_openapi_file", in, 400, "ValueError")
               ELSE Answer("upload_openapi_file", in,
                           ingest_openapi(openapi_json, base_url, ai))

----------------------------------------------------------------------------
(* The regular expressions of endpoints/openapi.py                         *)

Digits == "0123456789"

IsLetter(c) == IndexFrom(UpperLetters, c, 1) > 0 \/ IndexFrom(LowerLetters, c, 1) > 0
IsDigit(c) == IndexFrom(Digits, c, 1) > 0

\* \w
IsWordChar(c) == IsLetter(c) \/ IsDigit(c) \/ c = "_"

\* the least index >= i of s that holds no word character (Len(s) + 1 if none)
RECURSIVE WordEnd(_, _)
WordEnd(s, i) ==
    IF i > Len(s) \/ ~IsWordChar(CharAt(s, i)) THEN i ELSE WordEnd(s, i + 1)

\* the index of the "}" that closes a {\w+} opening at i, or 0
PlaceholderEnd(s, i) ==
    LET j == WordEnd(s, i + 1)
    IN IF CharAt(s, i) = "{" /\ j > i + 1 /\ j <= Len(s) /\ CharAt(s, j) = "}" THEN j ELSE 0

\* s.strip("/"), s.rstrip("/")
RECURSIVE LStrip(_, _)
LStrip(s, c) == IF Len(s) > 0 /\ CharAt(s, 1) = c THEN LStrip(SubSeq(s, 2, Len(s)), c) ELSE s

RECURSIVE RStrip(_, _)
RStrip(s, c) ==
    IF Len(s) > 0 /\ CharAt(s, Len(s)) = c THEN RStrip(SubSeq(s, 1, Len(s) - 1), c) ELSE s

Strip(s, c) == RStrip(LStrip(s, c), c)

\* re.sub(r'{\w+}', '', s)
RECURSIVE RemovePlaceholders(_)
RemovePlaceholders(s) ==
    IF Len(s) = 0 THEN ""
    ELSE LET j == PlaceholderEnd(s, 1)
         IN IF j > 0 THEN RemovePlaceholders(SubSeq(s, j + 1, Len(s)))
            ELSE CharAt(s, 1) \o RemovePlaceholders(SubSeq(s, 2, Len(s)))

\* re.findall(r'\{(\w+)\}', s)
RECURSIVE FindPlaceholders(_)
FindPlaceholders(s) ==
    IF Len(s) = 0 THEN <<>>
    ELSE LET j == PlaceholderEnd(s, 1)
         IN IF j > 0 THEN <<SubSeq(s, 2, j - 1)>> \o FindPlaceholders(SubSeq(s, j + 1, Len(s)))
            ELSE FindPlaceholders(SubSeq(s, 2, Len(s)))

\* re.sub(r'\{(\w+)\}', lambda m: "{sample_" + m.group(1) + "}", s)
RECURSIVE SamplePlaceholders(_)
SamplePlaceholders(s) ==
    IF Len(s) = 0 THEN ""
    ELSE LET j == PlaceholderEnd(s, 1)
         IN IF j > 0
            THEN "{sample_" \o SubSeq(s, 2, j - 1) \o "}" \o
                 SamplePlaceholders(SubSeq(s, j + 1, Len(s)))
            ELSE CharAt(s, 1) \o SamplePlaceholders(SubSeq(s, 2, Len(s)))

\* s.replace(a, b), a one character
RECURSIVE ReplaceChar(_, _, _)
ReplaceChar(s, a, b) ==
    IF Len(s) = 0 THEN ""
    ELSE (IF CharAt(s, 1) = a THEN b ELSE CharAt(s, 1)) \o ReplaceChar(SubSeq(s, 2, Len(s)), a, b)

\* s.title(): a letter after a letter is lowered, any other letter raised
RECURSIVE TitleFrom(_, _)
TitleFrom(s, after_letter) ==
    IF Len(s) = 0 THEN ""
    ELSE LET c == CharAt(s, 1)
         IN (IF after_letter THEN LowerChar(c) ELSE UpperChar(c)) \o
            TitleFrom(SubSeq(s, 2, Len(s)), IsLetter(c))

Title(s) == TitleFrom(s, FALSE)

\* line 309-310
normalize_path(path) == RemovePlaceholders(Strip(path, "/"))

----------------------------------------------------------------------------
(* endpoints/openapi.py: extract_content_type_from_openapi                 *)

\* lines 278-284
content_type_priority ==
    <<"application/x-www-form-urlencoded", "multipart/form-data", "application/json",
      "application/xml", "text/plain">>

\* lines 286-289: the first entry of the priority list that is a key of
\* content, from its i-th entry; "" when none is
RECURSIVE ct_first_in_content(_, _)
ct_first_in_content(content, i) ==
    IF i > Len(content_type_priority) THEN ""
    ELSE IF Has(content, content_type_priority[i]) THEN content_type_priority[i]
    ELSE ct_first_in_content(content, i + 1)

\* lines 297-300: the same over the consumes list
RECURSIVE ct_first_in_consumes(_, _)
ct_first_in_consumes(consumes, i) ==
    IF i > Len(content_type_priority) THEN ""
    ELSE IF InList(consumes, S(content_type_priority[i])) THEN content_type_priority[i]
    ELSE ct_first_in_consumes(consumes, i + 1)

\* l[0], for a list l
PyFirst(l) == IF Len(l.l) = 0 THEN Raise("IndexError") ELSE l.l[1]

\* lines 296-304: what the consumes of an operation yield; `ct in consumes`
\* raises TypeError when consumes is None, a number or a boolean
ct_of_consumes(consumes) ==
    LET first(by_consumes) ==
            IF by_consumes # "" THEN S(by_consumes)
            ELSE IF Truthy(consumes) THEN PyFirst(consumes)
            ELSE None
    IN IF consumes.t # "list" THEN Raise("TypeError")
       ELSE first(ct_first_in_consumes(consumes, 1))

\* lines 276-294: what the content of a requestBody yields, None when it
\* yields nothing
ct_of_content(content) ==
    LET first(by_content) ==
            IF by_content # "" THEN S(by_content)
            ELSE IF Truthy(content)
            THEN PyFirst(L([i \in 1..Len(content.d) |-> S(content.d[i][1])]))
            ELSE None
    IN IF ~IsDict(content) THEN Raise("TypeError")
       ELSE first(ct_first_in_content(content, 1))

\* lines 275-304: what one operation yields: a content type, None when the
\* loop over the paths goes on, or the exception that is raised
ct_of_operation(operation) ==
    LET or_consumes(found) ==
            IF found # None THEN found
            ELSE ct_of_consumes(GetOr(operation, "consumes", L(<<>>)))
        of_body(request_body) ==
            IF ~IsDict(request_body) THEN Raise("AttributeError")
            ELSE or_consumes(ct_of_content(GetOr(request_body, "content", EmptyDict)))
    IN IF ~IsDict(operation) THEN Raise("AttributeError")
       ELSE of_body(GetOr(operation, "requestBody", EmptyDict))

\* line 270: the path entries the loop looks into
ct_path_matches(openapi_path, path) ==
    normalize_path(openapi_path) = normalize_path(path) \/ openapi_path = path

\* lines 269-307: the loop over paths.items() from its i-th item
RECURSIVE ct_loop(_, _, _, _)
ct_loop(items, i, method_lower, path) ==
    IF i > Len(items) THEN S("application/json")
    ELSE IF ~ct_path_matches(items[i][1], path) THEN ct_loop(items, i + 1, method_lower, path)
    ELSE IF ~IsDict(items[i][2]) THEN Raise("AttributeError")
    ELSE LET or_next(found) ==
                 IF found # None THEN found ELSE ct_loop(items, i + 1, method_lower, path)
             of(operation) ==
                 IF ~Truthy(operation) THEN ct_loop(items, i + 1, method_lower, path)
                 ELSE or_next(ct_of_operation(operation))
         IN of(GetNone(items[i][2], method_lower))

\* lines 264-307: the content type that is returned, or the exception raised
extract_content_type_from_openapi(openapi, method, path) ==
    LET loop(paths) ==
            IF ~IsDict(paths) THEN Raise("AttributeError")
            ELSE ct_loop(paths.d, 1, Lower(method), path)
    IN loop(GetOr(openapi, "paths", EmptyDict))

----------------------------------------------------------------------------
(* endpoints/openapi.py: generate_field_example                            *)

\* "x" * n
RECURSIVE Repeat(_, _)
Repeat(c, n) == IF n <= 0 THEN "" ELSE c \o Repeat(c, n - 1)

Max(a, b) == IF a >= b THEN a ELSE b

\* lines 375-381: the placeholder, padded to minLength, cut to maxLength
example_base_text(min_length, max_length) ==
    LET base_text == "sample_text"
        padded == IF Truthy(min_length) /\ Len(base_text) < min_length.n
                  THEN base_text \o "_" \o Repeat("x", min_length.n - Len(base_text) - 1)
                  ELSE base_text
    IN IF Truthy(max_length) THEN SubSeq(padded, 1, IF max_length.n < Len(padded)
                                                     THEN max_length.n ELSE Len(padded))
       ELSE padded

\* a slip at lines 355-381: the name rule is tried before the others
example_string_name_first(field_format, title, min_length, max_length) ==
    LET t == Lower(title)
    IN IF Contains(t, "name") THEN "Sample Name"
       ELSE IF field_format = S("password") THEN "your_password_here"
       ELSE IF field_format = S("email") THEN "user@example.com"
       ELSE IF Contains(t, "email") THEN "user@example.com"
       ELSE IF Contains(t, "token") THEN "your_token_here"
       ELSE IF Contains(t, "title") THEN "Sample Title"
       ELSE IF Contains(t, "content") THEN "Sample content"
       ELSE IF Contains(t, "role") THEN "admin"
       ELSE example_base_text(min_length, max_length)

\* lines 355-381
example_string(field_format, title, min_length, max_length) ==
    LET t == Lower(title)
    IN IF field_format = S("password") THEN "your_password_here"
       ELSE IF field_format = S("email") THEN "user@example.com"
       ELSE IF Contains(t, "email") THEN "user@example.com"
       ELSE IF Contains(t, "username") \/ Contains(t, "user_name") THEN "your_username"
       ELSE IF Contains(t, "token") THEN "your_token_here"
       ELSE IF Contains(t, "title") THEN "Sample Title"
       ELSE IF Contains(t, "content") THEN "Sample content"
       ELSE IF Contains(t, "name") THEN "Sample Name"
       ELSE IF Contains(t, "role") THEN "admin"
       ELSE example_base_text(min_length, max_length)

\* a slip at lines 384-390: the example is kept below the maximum
example_integer_capped(field_info, title) ==
    LET minimum == GetOr(field_info, "minimum", N(1)).n
        maximum == GetOr(field_info, "maximum", N(100)).n
    IN IF Contains(Lower(title), "id") THEN 1
       ELSE IF Contains(Lower(title), "top_n") THEN 10
       ELSE IF Max(minimum, 1) > maximum THEN maximum ELSE Max(minimum, 1)

\* lines 383-390
example_integer(field_info, title) ==
    LET minimum == GetOr(field_info, "minimum", N(1))
    IN IF Contains(Lower(title), "id") THEN 1
       ELSE IF Contains(Lower(title), "top_n") THEN 10
       ELSE IF Truthy(minimum) THEN Max(minimum.n, 1) ELSE 1

Float(repr) == [t |-> "float", repr |-> repr]

generate_field_example(field_info) ==
    LET field_type == GetOr(field_info, "type", S("string"))
        title == GetOr(field_info, "title", S("")).s
    IN CASE field_type = S("string") ->
              S(example_string(GetNone(field_info, "format"), title,
                               GetNone(field_info, "minLength"),
                               GetNone(field_info, "maxLength")))
         [] field_type = S("integer") -> N(example_integer(field_info, title))
         [] field_type = S("number") -> Float("1.0")
         [] field_type = S("boolean") -> B(TRUE)
         [] field_type = S("array") -> L(<<>>)
         [] field_type = S("object") -> EmptyDict
         [] OTHER -> S("sample_" \o (IF IsStr(field_type) THEN field_type.s ELSE "?"))

----------------------------------------------------------------------------
(* endpoints/openapi.py: build_headers, get_project_templates              *)

\* a slip at line 320: Content-Type is set whether or not there is a body
headers_content_type_always(has_body) == TRUE

\* line 320: if has_body
headers_content_type(has_body) == has_body

\* lines 312-323
build_headers(content_type, requires_auth, has_body) ==
    LET h1 == D(<< <<"accept", S("application/json")>> >>)
        h2 == IF requires_auth THEN Put(h1, "Authorization", S("Bearer YOUR_ACCESS_TOKEN_HERE"))
              ELSE h1
    IN IF headers_content_type(has_body) THEN Put(h2, "Content-Type", content_type) ELSE h2

\* a slip at line 191: cookie parameters are taken for parameters as well
ParameterPlacesAndCookie == {S("query"), S("path"), S("header"), S("cookie")}

\* line 191: the places that make a stored field a parameter
ParameterPlaces == {S("query"), S("path"), S("header")}

\* lines 192-200: the parameter made of a stored field
tpl_parameter(field_name, field_data) ==
    D(<< <<"name", S(field_name)>>,
         <<"in", Get(field_data, "in")>>,
         <<"required", GetOr(field_data, "required", B(FALSE))>>,
         <<"schema",
           D(<< <<"type", GetOr(field_data, "type", S("string"))>>,
                <<"title", GetOr(field_data, "title",
                                 S(Title(ReplaceChar(field_name, "_", " "))))>> >>)>> >>)

\* lines 187-207: the loop over fields.items() from its i-th item; acc holds
\* parameters and body (None, or a dict)
RECURSIVE tpl_fields_loop(_, _, _)
tpl_fields_loop(items, i, acc) ==
    IF i > Len(items) THEN acc
    ELSE LET field_name == items[i][1]
             field_data == items[i][2]
             param_in == GetOr(field_data, "in", S("body"))
         IN IF param_in \in ParameterPlaces
            THEN tpl_fields_loop(items, i + 1,
                    [acc EXCEPT !.parameters = Append(@, tpl_parameter(field_name, field_data))])
            ELSE tpl_fields_loop(items, i + 1,
                    [acc EXCEPT !.body = Put(IF @ = None THEN EmptyDict ELSE @, field_name,
                                             generate_field_example(field_data))])

\* lines 213-227: a parameter for each {name} of the path that has none
RECURSIVE tpl_path_fallback(_, _, _)
tpl_path_fallback(path_params, i, parameters) ==
    IF i > Len(path_params) THEN parameters
    ELSE LET param_name == path_params[i]
             known == \E k \in 1..Len(parameters) : Get(parameters[k], "name") = S(param_name)
             param == D(<< <<"name", S(param_name)>>,
                           <<"in", S("path")>>,
                           <<"required", B(TRUE)>>,
                           <<"schema",
                             D(<< <<"type", S(IF EndsWith(param_name, "_id")
                                              THEN "integer" ELSE "string")>>,
                                  <<"title", S(Title(ReplaceChar(param_name, "_", " ")))>> >>)>> >>)
         IN tpl_path_fallback(path_params, i + 1,
                              IF known THEN parameters ELSE Append(parameters, param))

tpl_summary_described(endpoint, description) == description

\* line 245: the summary of a template is the stored one, whatever the
\* description collaborator said
tpl_summary(endpoint, description) == endpoint.summary

\* lines 163-254: the template of one endpoint
tpl_of_endpoint(endpoint, project, openapi_spec, ai_ok) ==
    LET resolved == extract_content_type_from_openapi(openapi_spec, endpoint.method, endpoint.path)
        has_path_params == Contains(endpoint.path, "{") /\ Contains(endpoint.path, "}")
        url_path == IF has_path_params THEN SamplePlaceholders(endpoint.path) ELSE endpoint.path
        \* lines 249-254: the body key is set when there is a body
        with_body(template, body) ==
            IF body # None THEN Put(template, "body", body) ELSE template
        \* lines 209-254, after the loop over the fields left acc
        template(content_type, acc) ==
            with_body(
              D(<< <<"endpoint_id", N(endpoint.id)>>,
                   <<"method", S(endpoint.method)>>,
                   <<"url", S(RStrip(project.base_url, "/") \o url_path)>>,
                   <<"headers", build_headers(content_type, endpoint.requires_auth,
                                              acc.body # None)>>,
                   <<"summary", tpl_summary(endpoint, generate_description(ai_ok))>>,
                   <<"description", generate_description(ai_ok)>>,
                   <<"requires_auth", B(endpoint.requires_auth)>>,
                   <<"parameters",
                     L(IF has_path_params
                       THEN tpl_path_fallback(FindPlaceholders(endpoint.path), 1,
                                              acc.parameters)
                       ELSE acc.parameters)>> >>),
              acc.body)
        \* lines 174-207: the stored request_body, when there is one that reads
        of(request_body_data, readable) ==
            template(IF readable /\ Has(request_body_data, "content_type")
                     THEN Get(request_body_data, "content_type") ELSE resolved,
                     IF readable /\ Has(request_body_data, "fields")
                     THEN tpl_fields_loop(Get(request_body_data, "fields").d, 1,
                                          [parameters |-> <<>>, body |-> None])
                     ELSE [parameters |-> <<>>, body |-> None])
        read(request_body_data) ==
            of(request_body_data, request_body_data # None /\ ~IsRaise(request_body_data))
    IN IF IsRaise(resolved) THEN resolved
       ELSE read(IF endpoint.request_body = None THEN None
                 ELSE json_loads(endpoint.request_body))

\* lines 130-262.  ai[i] tells whether the description collaborator answers
\* for the i-th endpoint
get_project_templates(project_id, ai) ==
    \E found \in {ProjectsWithId(project_id)}, eps \in {EndpointsOf(project_id)},
       logs \in {VersionLogsOf(project_id)} :
    LET in == [project_id |-> project_id]
    IN IF Len(found) = 0 THEN Reject("get_project_templates", in, 404, "Project not found")
       ELSE IF Len(eps) = 0 THEN Reject("get_project_templates", in, 404, "No endpoints found")
       ELSE IF Len(logs) > 1 THEN Reject("get_project_templates", in, 500, "MultipleResultsFound")
       ELSE IF Len(logs) = 0 THEN Reject("get_project_templates", in, 404, "No specification found")
       ELSE \E templates \in {[i \in 1..Len(eps) |->
                                  tpl_of_endpoint(eps[i], found[1],
                                                  json_loads(logs[1].raw_openapi),
                                                  i > Len(ai) \/ ai[i])]} :
               IF \E i \in 1..Len(templates) : IsRaise(templates[i])
               THEN Reject("get_project_templates", in, 500, "Internal Server Error")
               ELSE /\ last' = [op |-> "get_project_templates", in |-> in,
                                out |-> [status |-> 200, templates |-> templates]]
                    /\ UNCHANGED store

----------------------------------------------------------------------------
(* curl_parser.py: the regular expressions and urllib.parse                *)

IsQuote(c) == c = "'" \/ c = "\""
IsSpace(c) == c = " " \/ c = "\t" \/ c = "\n"

\* the least index >= i of s that holds a quote, or 0
NextQuote(s, i) == Least({j \in i..Len(s) : IsQuote(CharAt(s, j))}, 0)

\* the least index >= i of s that holds no white space (Len(s) + 1 if none)
RECURSIVE SpaceEnd(_, _)
SpaceEnd(s, i) == IF IsSpace(CharAt(s, i)) THEN SpaceEnd(s, i + 1) ELSE i

\* s.strip()
RECURSIVE StripSpace(_)
StripSpace(s) ==
    IF Len(s) > 0 /\ IsSpace(CharAt(s, 1)) THEN StripSpace(SubSeq(s, 2, Len(s)))
    ELSE IF Len(s) > 0 /\ IsSpace(CharAt(s, Len(s))) THEN StripSpace(SubSeq(s, 1, Len(s) - 1))
    ELSE s

\* s.isdigit()
IsDigits(s) == Len(s) > 0 /\ \A i \in 1..Len(s) : IsDigit(CharAt(s, i))

\* s.capitalize()
Capitalize(s) ==
    IF Len(s) = 0 THEN "" ELSE UpperChar(CharAt(s, 1)) \o Lower(SubSeq(s, 2, Len(s)))

\* line 11: re.search(r"curl -X ['\"]?(\w+)['\"]?", curl), group 1 of the
\* leftmost match at or after i; "" when there is none
RECURSIVE curl_method_match(_, _)
curl_method_match(curl, i) ==
    LET p == Find(curl, "curl -X ", i)
        k == IF IsQuote(CharAt(curl, p + 8)) THEN p + 9 ELSE p + 8
        e == WordEnd(curl, k)
    IN IF p = 0 THEN ""
       ELSE IF e > k THEN SubSeq(curl, k, e - 1)
       ELSE curl_method_match(curl, p + 1)

\* line 16: re.search(r"['\"](https?://[^'\"]+)['\"]", curl), group 1 of the
\* leftmost match at or after i; "" when there is none
curl_url_scheme(curl, i) ==
    IF SubSeq(curl, i + 1, i + 7) = "http://" THEN 7
    ELSE IF SubSeq(curl, i + 1, i + 8) = "https://" THEN 8 ELSE 0

curl_url_match(curl, i) ==
    LET starts == {j \in i..(Len(curl) - 8) :
                      /\ IsQuote(CharAt(curl, j))
                      /\ curl_url_scheme(curl, j) > 0
                      /\ NextQuote(curl, j + 1 + curl_url_scheme(curl, j))
                            > j + 1 + curl_url_scheme(curl, j)}
        p == Least(starts, 0)
    IN IF p = 0 THEN ""
       ELSE SubSeq(curl, p + 1, NextQuote(curl, p + 1 + curl_url_scheme(curl, p)) - 1)

\* line 35: re.findall(r"-H ['\"]([^:]+):\s?([^'\"]+)['\"]", curl) from i
RECURSIVE curl_header_matches(_, _)
curl_header_matches(curl, i) ==
    LET p == Find(curl, "-H ", i)
        k == p + 4
        c == IndexFrom(curl, ":", k)
        v == IF IsSpace(CharAt(curl, c + 1)) /\ c + 2 <= Len(curl)
                /\ ~IsQuote(CharAt(curl, c + 2))
             THEN c + 2 ELSE c + 1
        q == NextQuote(curl, v)
    IN IF p = 0 THEN <<>>
       ELSE IF IsQuote(CharAt(curl, p + 3)) /\ c > k /\ q > v
       THEN <<<<SubSeq(curl, k, c - 1), SubSeq(curl, v, q - 1)>>>> \o
            curl_header_matches(curl, q + 1)
       ELSE curl_header_matches(curl, p + 1)

\* dict(pairs): a later pair replaces the value of an earlier one
RECURSIVE DictOfPairs(_)
DictOfPairs(pairs) ==
    IF Len(pairs) = 0 THEN EmptyDict
    ELSE Put(DictOfPairs(SubSeq(pairs, 1, Len(pairs) - 1)),
             pairs[Len(pairs)][1], S(pairs[Len(pairs)][2]))

\* line 40: the index of the quote that closes ((?:\\'|[^'])*)' scanned from
\* j; after an unclosed body the last escaped quote closes it
RECURSIVE curl_body_end(_, _, _)
curl_body_end(curl, j, last_escaped) ==
    IF j > Len(curl) THEN last_escaped
    ELSE IF CharAt(curl, j) = "\\" /\ CharAt(curl, j + 1) = "'"
         THEN curl_body_end(curl, j + 2, j + 1)
    ELSE IF CharAt(curl, j) = "'" THEN j
    ELSE curl_body_end(curl, j + 1, last_escaped)

\* line 40: re.search(r"-d\s+'((?:\\'|[^'])*)'", curl), the leftmost match at
\* or after i: whether there is one, and its group 1
RECURSIVE curl_data_match(_, _)
curl_data_match(curl, i) ==
    LET p == Find(curl, "-d", i)
        b == SpaceEnd(curl, p + 2)
        e == curl_body_end(curl, b + 1, 0)
    IN IF p = 0 THEN [found |-> FALSE, group |-> ""]
       ELSE IF b > p + 2 /\ CharAt(curl, b) = "'" /\ e > 0
       THEN [found |-> TRUE, group |-> SubSeq(curl, b + 1, e - 1)]
       ELSE curl_data_match(curl, p + 1)

\* line 45: ast.literal_eval("'" + raw_body + "'") for a body whose only
\* escapes are \' : each becomes '
RECURSIVE UnescapeQuotes(_)
UnescapeQuotes(s) ==
    IF Len(s) = 0 THEN ""
    ELSE IF CharAt(s, 1) = "\\" /\ CharAt(s, 2) = "'"
         THEN "'" \o UnescapeQuotes(SubSeq(s, 3, Len(s)))
    ELSE CharAt(s, 1) \o UnescapeQuotes(SubSeq(s, 2, Len(s)))

\* the index of the first of the characters of stops in s at or after i, or
\* Len(s) + 1
StopAt(s, stops, i) ==
    Least({j \in i..Len(s) : IndexFrom(stops, CharAt(s, j), 1) > 0}, Len(s) + 1)

\* urllib.parse.urlparse(url): scheme, netloc, path, query
urlparse(url) ==
    LET c == Find(url, "://", 1)
        n == IF c = 0 THEN 1 ELSE c + 3
        p == StopAt(url, "/?#", n)
        q == StopAt(url, "?#", p)
        f == StopAt(url, "#", q)
    IN [scheme |-> IF c = 0 THEN "" ELSE Lower(SubSeq(url, 1, c - 1)),
        netloc |-> IF c = 0 THEN "" ELSE SubSeq(url, n, p - 1),
        path |-> IF c = 0 THEN SubSeq(url, 1, q - 1) ELSE SubSeq(url, p, q - 1),
        query |-> IF CharAt(url, q) = "?" THEN SubSeq(url, q + 1, f - 1) ELSE ""]

\* urllib.parse.unquote_plus(s), for an s that holds no %-escape
unquote_plus(s) == ReplaceChar(s, "+", " ")

\* urllib.parse.parse_qs(qs): the names in the order they first appear, each
\* with its values; a pair with no "=" or with no value is left out
RECURSIVE parse_qs_pairs(_, _, _)
parse_qs_pairs(pairs, i, acc) ==
    IF i > Len(pairs) THEN acc
    ELSE LET e == IndexFrom(pairs[i], "=", 1)
             name == unquote_plus(SubSeq(pairs[i], 1, e - 1))
             value == S(unquote_plus(SubSeq(pairs[i], e + 1, Len(pairs[i]))))
         IN IF e = 0 \/ e = Len(pairs[i]) THEN parse_qs_pairs(pairs, i + 1, acc)
            ELSE parse_qs_pairs(pairs, i + 1,
                    Put(acc, name, L(Append(GetOr(acc, name, L(<<>>)).l, value))))

parse_qs(qs) == parse_qs_pairs(Split(qs, "&"), 1, EmptyDict)

----------------------------------------------------------------------------
(* curl_parser.parse_curl                                                  *)

\* json.loads on the body texts of the model: the JSON texts among them with
\* the values they denote; every other text raises JSONDecodeError
JsonBodies ==
    << <<"{\"name\": \"Ann\", \"age\": 30}",
         D(<< <<"name", S("Ann")>>, <<"age", N(30)>> >>)>>,
       <<"{\"tags\": [], \"draft\": true}",
         D(<< <<"tags", L(<<>>)>>, <<"draft", B(TRUE)>> >>)>>,
       <<"[1, 2]", L(<<N(1), N(2)>>)>>,
       <<"\"hello\"", S("hello")>>,
       <<"{}", EmptyDict>> >>

json_loads_body(raw_body) ==
    IF \E i \in 1..Len(JsonBodies) : JsonBodies[i][1] = raw_body
    THEN JsonBodies[CHOOSE i \in 1..Len(JsonBodies) : JsonBodies[i][1] = raw_body][2]
    ELSE Raise("JSONDecodeError")

\* lines 100-108: type(value).__name__ mapped to a JSON type
curl_json_type(value) ==
    CASE value.t = "str" -> "string"
      [] value.t = "int" -> "integer"
      [] value.t = "float" -> "number"
      [] value.t = "bool" -> "boolean"
      [] value.t = "list" -> "array"
      [] value.t = "dict" -> "object"
      [] OTHER -> "string"

\* lines 25-28: base_url and path of the parsed URL
curl_version_prefix(path_parts) ==
    IF Len(path_parts) > 0 /\ CharAt(path_parts[1], 1) = "v" /\ IsDigit(CharAt(path_parts[1], 2))
    THEN path_parts[1] ELSE ""

\* lines 51-70: one parameter for each name of the query string
curl_parameters(query_params) ==
    [i \in 1..Len(query_params.d) |->
        LET param_name == query_params.d[i][1]
            param_value == query_params.d[i][2].l[1].s
            param_type == IF IsDigits(param_value) THEN "integer"
                          ELSE IF Lower(param_value) \in {"true", "false"} THEN "boolean"
                          ELSE "string"
        IN D(<< <<"name", S(param_name)>>,
                <<"in", S("query")>>,
                <<"required", B(TRUE)>>,
                <<"schema", D(<< <<"type", S(param_type)>>, <<"example", S(param_value)>> >>)>>,
                <<"description", S("Query parameter " \o param_name)>> >>)]

\* lines 78-89: the schema of a form-encoded body
curl_form_body(raw_body) ==
    LET schema(parsed) ==
            D(<< <<"type", S("object")>>,
                 <<"properties",
                   D([i \in 1..Len(parsed.d) |->
                        <<parsed.d[i][1],
                          D(<< <<"type", S("string")>>,
                               <<"title", S(Capitalize(parsed.d[i][1]))>>,
                               <<"example", S(unquote_plus(parsed.d[i][2].l[1].s))>> >>)>>])>>,
                 <<"required", L([i \in 1..Len(parsed.d) |-> S(parsed.d[i][1])])>> >>)
    IN schema(parse_qs(raw_body))

\* lines 92-117: the schema of a JSON body: None after a JSONDecodeError; the
\* AttributeError of json_obj.keys() on a value that is no dict is not caught
curl_json_body(raw_body) ==
    LET schema(json_obj) ==
            IF IsRaise(json_obj) THEN None
            ELSE IF ~IsDict(json_obj) THEN Raise("AttributeError")
            ELSE D(<< <<"type", S("object")>>,
                      <<"properties",
                        D([i \in 1..Len(json_obj.d) |->
                             <<json_obj.d[i][1],
                               D(<< <<"type", S(curl_json_type(json_obj.d[i][2]))>>,
                                    <<"title", S(Capitalize(json_obj.d[i][1]))>>,
                                    <<"example", json_obj.d[i][2]>> >>)>>])>>,
                      <<"required",
                        L([i \in 1..Len(json_obj.d) |-> S(json_obj.d[i][1])])>> >>)
    IN schema(json_loads_body(raw_body))

\* lines 74-117
curl_request_body(raw_body, content_type) ==
    IF Truthy(raw_body) /\ content_type = S("application/x-www-form-urlencoded")
    THEN curl_form_body(raw_body.s)
    ELSE IF Truthy(raw_body) /\ content_type = S("application/json")
    THEN curl_json_body(raw_body.s)
    ELSE None

\* lines 11-12: the method is upper-cased, GET when there is no match
curl_method(method_match) == IF method_match # "" THEN Upper(method_match) ELSE "GET"

\* lines 25-28: base_url and path
curl_base_url(parsed_url, version_prefix) ==
    parsed_url.scheme \o "://" \o parsed_url.netloc \o
    (IF version_prefix # "" THEN "/" \o version_prefix ELSE "")

curl_path(path_parts, version_prefix) ==
    "/" \o Join(IF version_prefix # "" THEN Tail(path_parts) ELSE path_parts, "/")

\* lines 41-47: group 1 stripped, then unescaped when it is not empty
curl_raw_body(data_match) ==
    LET stripped(group) == IF group = "" THEN S("") ELSE S(UnescapeQuotes(group))
    IN IF ~data_match.found THEN None ELSE stripped(StripSpace(data_match.group))

\* lines 121-130: the dict that is returned
curl_result(method, base_url, path, headers, raw_body, query_params, request_body) ==
    IF IsRaise(request_body) THEN request_body
    ELSE D(<< <<"method", S(method)>>,
              <<"base_url", S(base_url)>>,
              <<"path", S(path)>>,
              <<"headers", headers>>,
              <<"body", raw_body>>,
              <<"parameters", L(curl_parameters(query_params))>>,
              <<"requires_auth", B(Has(headers, "Authorization"))>>,
              <<"request_body",
                IF Truthy(request_body) THEN json_dumps(request_body) ELSE None>> >>)

\* lines 7-130: the dict parse_curl returns, or the exception it raises
parse_curl(curl) ==
    LET with_body(method, base_url, path, headers, raw_body, query_params) ==
            curl_result(method, base_url, path, headers, raw_body, query_params,
                        curl_request_body(raw_body, GetOr(headers, "Content-Type", S(""))))
        with_prefix(method, parsed_url, path_parts, version_prefix, headers, raw_body) ==
            with_body(method, curl_base_url(parsed_url, version_prefix),
                      curl_path(path_parts, version_prefix), headers, raw_body,
                      parse_qs(parsed_url.query))
        with_parts(method, parsed_url, path_parts, headers, raw_body) ==
            with_prefix(method, parsed_url, path_parts, curl_version_prefix(path_parts),
                        headers, raw_body)
        with_url(method, parsed_url, headers, raw_body) ==
            with_parts(method, parsed_url, Split(Strip(parsed_url.path, "/"), "/"),
                       headers, raw_body)
    IN with_url(curl_method(curl_method_match(curl, 1)),
                urlparse(curl_url_match(curl, 1)),
                DictOfPairs(curl_header_matches(curl, 1)),
                curl_raw_body(curl_data_match(curl, 1)))

----------------------------------------------------------------------------
(* endpoints/curl.py: upload_curl                                          *)

\* lines 33-41: the fields made of the parameters
RECURSIVE curl_fields(_, _, _)
curl_fields(parameters, i, fields) ==
    IF i > Len(parameters) THEN fields
    ELSE LET param == parameters[i]
         IN curl_fields(parameters, i + 1,
               Put(fields, Get(param, "name").s,
                   D(<< <<"type", Get(Get(param, "schema"), "type")>>,
                        <<"title", GetOr(param, "description", Get(param, "name"))>>,
                        <<"in", Get(param, "in")>>,
                        <<"required", Get(param, "required")>>,
                        <<"example", GetOr(Get(param, "schema"), "example", S(""))>> >>)))

\* lines 29-46: the request_body column of the endpoint
curl_request_body_data(parsed) ==
    IF Get(parsed, "request_body") # None THEN Get(parsed, "request_body")
    ELSE IF Truthy(Get(parsed, "parameters"))
    THEN json_dumps(D(<< <<"fields", curl_fields(Get(parsed, "parameters").l, 1, EmptyDict)>>,
                         <<"content_type", S("application/json")>> >>))
    ELSE None


\* line 25: the Project of a cURL upload
curl_project(parsed, id) ==
    [id |-> id, name |-> "From cURL", base_url |-> Get(parsed, "base_url").s]

\* lines 49-56: its Endpoint
curl_endpoint(parsed, id, project_id) ==
    [id |-> id,
     project_id |-> project_id,
     path |-> Get(parsed, "path").s,
     method |-> Get(parsed, "method").s,
     summary |-> S("Parsed from cURL"),
     requires_auth |-> Get(parsed, "requires_auth").b,
     request_body |-> curl_request_body_data(parsed)]

\* a VersionLog filed under the first project
curl_version_log_of_first(curl, parsed, id, project_id) ==
    [id |-> id,
     project_id |-> 1,
     raw_openapi |->
        json_dumps(D(<< <<"parsed_from", S("curl")>>,
                        <<"curl", S(curl)>>,
                        <<"headers", Get(parsed, "headers")>>,
                        <<"body", Get(parsed, "body")>>,
                        <<"parameters", Get(parsed, "parameters")>> >>))]

\* lines 60-69: its VersionLog
curl_version_log(curl, parsed, id, project_id) ==
    [id |-> id,
     project_id |-> project_id,
     raw_openapi |->
        json_dumps(D(<< <<"parsed_from", S("curl")>>,
                        <<"curl", S(curl)>>,
                        <<"headers", Get(parsed, "headers")>>,
                        <<"body", Get(parsed, "body")>>,
                        <<"parameters", Get(parsed, "parameters")>> >>))]

\* lines 13-83
upload_curl(curl) ==
    \E parsed \in {parse_curl(curl)} :
    LET in == [curl |-> curl]
    IN IF IsRaise(parsed) THEN Reject("upload_curl", in, 400, "Failed to parse curl")
       ELSE /\ last' = [op |-> "upload_curl", in |-> in,
                        out |-> [status |-> 200, detail |-> "uploaded and parsed",
                                 project_id |-> Len(projects) + 1]]
            /\ projects' = Append(projects, curl_project(parsed, Len(projects) + 1))
            /\ endpoints' = Append(endpoints,
                                   curl_endpoint(parsed, Len(endpoints) + 1,
                                                 Len(projects) + 1))
            /\ version_logs' = Append(version_logs,
                                      curl_version_log(curl, parsed, Len(version_logs) + 1,
                                                       Len(projects) + 1))

----------------------------------------------------------------------------
(* Documents *)

KV(k, v) == <<k, v>>

TagSchema ==
    D(<<KV("type", S("string")), KV("title", S("Tag")), KV("maxLength", N(5))>>)

ItemSchema ==
    D(<<KV("type", S("object")),
        KV("required", L(<<S("name")>>)),
        KV("properties",
           D(<<KV("name", D(<<KV("type", S("string")), KV("minLength", N(2))>>)),
               KV("price", D(<<KV("type", S("integer")), KV("minimum", N(0))>>)),
               KV("tag", D(<<KV("$ref", S("#/components/schemas/Tag"))>>))>>))>>)

Components ==
    D(<<KV("schemas",
           D(<<KV("Item", ItemSchema),
               KV("Tag", TagSchema),
               KV("Name", S("x")),
               KV("a/b", D(<<KV("type", S("string"))>>))>>))>>)

ItemRef == D(<<KV("$ref", S("#/components/schemas/Item"))>>)

FileSchema ==
    D(<<KV("type", S("object")),
        KV("properties", D(<<KV("file", D(<<KV("type", S("string")),
                                            KV("format", S("binary"))>>))>>))>>)

JsonItem == KV("application/json", D(<<KV("schema", ItemRef)>>))
MultipartFile == KV("multipart/form-data", D(<<KV("schema", FileSchema)>>))

ParamId ==
    D(<<KV("name", S("id")), KV("in", S("path")), KV("required", B(TRUE)),
        KV("schema", D(<<KV("type", S("integer"))>>))>>)
ParamItemId ==
    D(<<KV("name", S("item_id")), KV("in", S("path")), KV("required", B(TRUE)),
        KV("schema", D(<<KV("type", S("integer"))>>))>>)
ParamVerbose ==
    D(<<KV("name", S("verbose")), KV("in", S("query")),
        KV("schema", D(<<KV("type", S("boolean"))>>))>>)
ParamSession ==
    D(<<KV("name", S("session")), KV("in", S("cookie")),
        KV("schema", D(<<KV("type", S("string"))>>))>>)
ParamIdQuery ==
    D(<<KV("name", S("id")), KV("in", S("query")),
        KV("schema", D(<<KV("type", S("string"))>>))>>)
ParamNameCookie ==
    D(<<KV("name", S("name")), KV("in", S("cookie")),
        KV("schema", D(<<KV("type", S("integer"))>>))>>)
ParamName ==
    D(<<KV("name", S("name")), KV("in", S("query")),
        KV("schema", D(<<KV("type", S("string"))>>))>>)

Bearer == L(<<D(<<KV("bearerAuth", L(<<>>))>>)>>)

\* operations
OpList == D(<<KV("summary", S("List items")), KV("security", L(<<>>))>>)
OpGet == D(<<KV("parameters", L(<<ParamId>>)), KV("security", Bearer)>>)
OpCreate ==
    D(<<KV("requestBody", D(<<KV("required", B(TRUE)), KV("content", D(<<JsonItem>>))>>)),
        KV("security", Bearer)>>)
OpCreateJsonFirst ==
    D(<<KV("requestBody", D(<<KV("content", D(<<JsonItem, MultipartFile>>))>>))>>)
OpCreateFormFirst ==
    D(<<KV("requestBody", D(<<KV("content", D(<<MultipartFile, JsonItem>>))>>))>>)
OpUpdate ==
    D(<<KV("requestBody", D(<<KV("content", D(<<JsonItem>>))>>)),
        KV("parameters", L(<<ParamItemId, ParamVerbose>>))>>)
\* a cookie parameter that has the name of a property of the body
OpRenameCookie ==
    D(<<KV("requestBody", D(<<KV("content", D(<<JsonItem>>))>>)),
        KV("parameters", L(<<ParamNameCookie>>))>>)
OpRename ==
    D(<<KV("requestBody", D(<<KV("content", D(<<JsonItem>>))>>)),
        KV("parameters", L(<<ParamName>>))>>)
OpSession ==
    D(<<KV("parameters", L(<<ParamSession>>)),
        KV("consumes", L(<<S("application/xml"), S("multipart/form-data")>>))>>)
OpCsv ==
    D(<<KV("requestBody",
           D(<<KV("content",
                  D(<<KV("text/csv",
                         D(<<KV("schema",
                                D(<<KV("properties",
                                       D(<<KV("row", D(<<KV("type", S("string"))>>))>>))>>))>>)),
                      KV("application/octet-stream", EmptyDict)>>))>>))>>)
\* a required body of two content types, and a parameter
OpReplace ==
    D(<<KV("requestBody", D(<<KV("required", B(TRUE)),
                              KV("content", D(<<MultipartFile, JsonItem>>))>>)),
        KV("parameters", L(<<ParamItemId>>))>>)
OpNoParams == D(<<KV("parameters", None)>>)
\* a path parameter and a query parameter of the same name
OpSameName == D(<<KV("parameters", L(<<ParamId, ParamIdQuery>>))>>)
\* what a YAML text with an empty `consumes:` key holds
OpNullConsumes == D(<<KV("parameters", L(<<ParamVerbose>>)), KV("consumes", None)>>)

Info == D(<<KV("title", S("Shop")), KV("version", S("1.0"))>>)

Doc(paths) == D(<<KV("openapi", S("3.0.0")), KV("info", Info), KV("paths", D(paths)),
                  KV("components", Components)>>)

DocShop ==
    Doc(<<KV("/items", D(<<KV("get", OpList), KV("post", OpCreate)>>)),
          KV("/items/{id}", D(<<KV("get", OpGet)>>))>>)
DocJsonFirst == Doc(<<KV("/items", D(<<KV("post", OpCreateJsonFirst)>>))>>)
DocFormFirst == Doc(<<KV("/items", D(<<KV("post", OpCreateFormFirst)>>))>>)
DocShared ==
    Doc(<<KV("/items/{item_id}",
             D(<<KV("summary", S("One item")), KV("put", OpUpdate), KV("PATCH", OpRename)>>))>>)
DocLegacy ==
    Doc(<<KV("/session", D(<<KV("post", OpSession)>>)), KV("/upload", D(<<KV("post", OpCsv)>>))>>)
DocTwins ==
    Doc(<<KV("/items/{id}", D(<<KV("get", OpGet)>>)),
          KV("/items/{item_id}", D(<<KV("get", OpList), KV("put", OpCreateFormFirst)>>))>>)
\* two paths that differ in the name of their placeholder only, with bodies
\* of different content types under the same method
DocTwinBodies ==
    Doc(<<KV("/items/{id}", D(<<KV("put", OpCreate)>>)),
          KV("/items/{item_id}", D(<<KV("put", OpCreateFormFirst)>>))>>)
DocCookieName == Doc(<<KV("/items", D(<<KV("patch", OpRenameCookie)>>))>>)
DocBroken ==
    Doc(<<KV("/items", D(<<KV("get", OpList), KV("post", OpNoParams)>>))>>)
DocNullConsumes == Doc(<<KV("/reports", D(<<KV("post", OpNullConsumes)>>))>>)
\* method keys that differ in case only
DocSameMethod == Doc(<<KV("/items", D(<<KV("get", OpList), KV("GET", OpCreate)>>))>>)
DocSameName == Doc(<<KV("/items/{id}", D(<<KV("get", OpSameName)>>))>>)
DocReplace == Doc(<<KV("/items/{item_id}", D(<<KV("put", OpReplace)>>))>>)
DocEmpty == D(<<KV("openapi", S("3.0.0")), KV("info", Info)>>)

\* the documents that are ingested
GoodDocs ==
    {DocShop, DocJsonFirst, DocFormFirst, DocShared, DocLegacy, DocTwins, DocNullConsumes,
     DocSameMethod, DocSameName, DocReplace, DocTwinBodies, DocCookieName, DocEmpty}

\* the texts of the uploads: JSON texts, YAML texts, and a text that is neither
DocTexts ==
    {Text("json", d) : d \in GoodDocs \cup {DocBroken}} \cup
    { Text("yaml", DocShop),
      Text("none", None),
      Text("yaml", S("openapi spec")),
      Text("yaml", None),
      Text("json", L(<<>>)),
      Text("json", D(<<KV("openapi", S("3.0.0")), KV("paths", EmptyDict)>>)),
      Text("json", D(<<KV("info", D(<<KV("version", S("1.0"))>>)), KV("paths", EmptyDict)>>)),
      Text("yaml", D(<<KV("info", S("Shop")), KV("paths", EmptyDict)>>)),
      Text("yaml", D(<<KV("info", D(<<KV("title", None)>>)), KV("paths", EmptyDict)>>)) }

BaseUrl == "https://api.example.com/"

\* what client.get(openapi_url) does
Fetches ==
    {[error |-> TRUE, status |-> 0, text |-> Text("none", None)],
     [error |-> FALSE, status |-> 404, text |-> Text("none", None)]} \cup
    {[error |-> FALSE, status |-> 200, text |-> t] : t \in DocTexts}

\* the uploaded files
Files ==
    {[decodes |-> FALSE, text |-> Text("none", None)]} \cup
    {[decodes |-> TRUE, text |-> t] : t \in DocTexts}

\* the cURL commands
CurlUsers == "'https://api.example.com/v1/users'"
CurlSearch == "'https://api.example.com/users?page=2&active=true&q='"
HJson == " -H 'Content-Type: application/json'"
HForm == " -H 'Content-Type: application/x-www-form-urlencoded'"
HAuth == " -H 'Authorization: Bearer x'"

CurlJsonBody ==
    "curl -X POST " \o CurlUsers \o HJson \o HAuth \o " -d '{\"name\": \"Ann\", \"age\": 30}'"
CurlJsonList == "curl -X POST " \o CurlUsers \o HJson \o " -d '[1, 2]'"
CurlJsonCut == "curl -X POST " \o CurlUsers \o HJson \o " -d '{\"name\": '"
CurlFormBody == "curl -X POST " \o CurlUsers \o HForm \o " -d 'name=Ann+Lee&age=30'"
CurlFormJson ==
    "curl -X POST " \o CurlUsers \o HForm \o " -d '{\"name\": \"Ann\", \"age\": 30}'"
CurlQueryAndBody ==
    "curl -X put " \o CurlSearch \o HJson \o " -d '{\"tags\": [], \"draft\": true}'"
CurlQuery == "curl " \o CurlSearch \o HAuth
CurlTrace == "curl -X TRACE " \o CurlUsers
CurlBareUrl == "curl -X DELETE https://api.example.com/v1/users/7"
CurlPlainText == "curl -X PATCH " \o CurlUsers \o " -d 'plain text'"

\* a header name in lower case, as HTTP/2 clients write it
CurlLowerAuth == "curl -X GET " \o CurlUsers \o " -H 'authorization: Bearer x'"
\* a header without a value before the Authorization header
CurlBareHeader == "curl -X GET " \o CurlUsers \o " -H 'X-Trace;'" \o HAuth

CurlCommands ==
    {CurlJsonBody, CurlJsonList, CurlJsonCut, CurlFormBody, CurlFormJson, CurlQueryAndBody,
     CurlQuery, CurlTrace, CurlBareUrl, CurlPlainText, CurlLowerAuth, CurlBareHeader}

----------------------------------------------------------------------------
(* Specification Spec: the service.  Each action is one request.           *)

MaxProjects == 1
MaxOps == 2

\* whether the description collaborator answers, call by call; it answers
\* every call after the MaxOps-th
AiRuns == [1..MaxOps -> BOOLEAN]
AiAnswers == [i \in 1..MaxOps |-> TRUE]

\* the runs that differ for a text: all of them when the text holds paths
AiRunsOfText(text) ==
    IF IsDict(text.value) /\ Truthy(GetOr(text.value, "paths", None))
    THEN AiRuns ELSE {AiAnswers}

\* the runs that differ for a project: all of them when it has endpoints
AiRunsOfProject(project_id) ==
    IF Len(EndpointsOf(project_id)) > 0 THEN AiRuns ELSE {AiAnswers}

\* no request is under way
NoTasks == <<>>

Init ==
    /\ projects = <<>>
    /\ endpoints = <<>>
    /\ version_logs = <<>>
    /\ last = [op |-> "none", in |-> None, out |-> None]
    /\ tasks = NoTasks

UploadOpenapi ==
    /\ Len(projects) < MaxProjects
    /\ \E fetch \in Fetches : \E ai \in AiRunsOfText(fetch.text) :
          upload_openapi(fetch, S(BaseUrl), ai)
    /\ UNCHANGED tasks

UploadOpenapiFile ==
    /\ Len(projects) < MaxProjects
    /\ \E file \in Files, base_url \in {None, S(BaseUrl)} :
          \E ai \in AiRunsOfText(file.text) : upload_openapi_file(file, base_url, ai)
    /\ UNCHANGED tasks

UploadCurl ==
    /\ Len(projects) < MaxProjects
    /\ \E curl \in CurlCommands : upload_curl(curl)
    /\ UNCHANGED tasks

GetProjectTemplates ==
    /\ \E project_id \in 1..MaxProjects : \E ai \in AiRunsOfProject(project_id) :
          get_project_templates(project_id, ai)
    /\ UNCHANGED tasks

Next == UploadOpenapi \/ UploadOpenapiFile \/ UploadCurl \/ GetProjectTemplates

Spec == Init /\ [][Next]_vars

----------------------------------------------------------------------------
(* Specification SpecAgain: sources that are ingested again, and templates *)
(* asked for again                                                         *)

MaxAgain == 2

AgainDocs == {DocShop, DocShared}
AgainCommands == {CurlJsonBody, CurlQuery}

AgainUploadOpenapi ==
    /\ Len(projects) < MaxAgain
    /\ \E doc \in AgainDocs :
          upload_openapi([error |-> FALSE, status |-> 200, text |-> Text("json", doc)],
                         S(BaseUrl), AiAnswers)
    /\ UNCHANGED tasks

AgainUploadOpenapiFile ==
    /\ Len(projects) < MaxAgain
    /\ \E doc \in AgainDocs :
          upload_openapi_file([decodes |-> TRUE, text |-> Text("yaml", doc)],
                              S(BaseUrl), AiAnswers)
    /\ UNCHANGED tasks

AgainUploadCurl ==
    /\ Len(projects) < MaxAgain
    /\ \E curl \in AgainCommands : upload_curl(curl)
    /\ UNCHANGED tasks

AgainGetProjectTemplates ==
    /\ \E project_id \in 1..MaxAgain : \E ai \in AiRunsOfProject(project_id) :
          get_project_templates(project_id, ai)
    /\ UNCHANGED tasks

NextAgain ==
    AgainUploadOpenapi \/ AgainUploadOpenapiFile \/ AgainUploadCurl \/ AgainGetProjectTemplates

SpecAgain == Init /\ [][NextAgain]_vars

----------------------------------------------------------------------------
(* Specification SpecRef: resolve_ref applied to bounded inputs *)

Pending == [t |-> "pending"]

MaxRefSegs == 3

RefSegs == {"components", "schemas", "Item", "Name", "a", "b", ""}
RefPrefixes == {"#/", "#", "", "/"}

RECURSIVE SegSeqs(_)
SegSeqs(n) ==
    IF n = 0 THEN {<<>>}
    ELSE LET shorter == SegSeqs(n - 1)
         IN shorter \cup {Append(q, g) : q \in {x \in shorter : Len(x) = n - 1}, g \in RefSegs}

Refs == {p \o Join(q, "/") : p \in RefPrefixes, q \in SegSeqs(MaxRefSegs)}

RefDocs ==
    { D(<<KV("openapi", S("3.0.0")), KV("components", Components)>>),
      D(<<KV("components", S("none")),
          KV("", D(<<KV("a", D(<<KV("b", EmptyDict)>>)), KV("", D(<<KV("type", S("string"))>>))>>)),
          KV("a", L(<<D(<<KV("b", EmptyDict)>>)>>))>>) }

InitRef ==
    /\ projects = <<>>
    /\ endpoints = <<>>
    /\ version_logs = <<>>
    /\ \E ref \in Refs, d \in RefDocs :
          last = [op |-> "resolve_ref", in |-> [ref |-> ref, openapi_spec |-> d], out |-> Pending]
    /\ tasks = NoTasks

CallResolveRef ==
    /\ last.op = "resolve_ref"
    /\ last.out = Pending
    /\ last' = [last EXCEPT !.out = resolve_ref(last.in.ref, last.in.openapi_spec)]
    /\ UNCHANGED <<store, tasks>>

NextRef == CallResolveRef

SpecRef == InitRef /\ [][NextRef]_vars

----------------------------------------------------------------------------
(* Specification SpecCT: extract_content_type_from_openapi applied to      *)
(* bounded documents                                                       *)

MaxContentKeys == 2

CtKeys == {"application/json", "multipart/form-data", "text/csv", "application/xml"}

Elems(q) == {q[i] : i \in 1..Len(q)}

\* the declaration orders of at most n content types
RECURSIVE KeySeqs(_)
KeySeqs(n) ==
    IF n = 0 THEN {<<>>}
    ELSE LET shorter == KeySeqs(n - 1)
         IN shorter \cup {Append(q, k) : q \in {x \in shorter : Len(x) = n - 1},
                                         k \in CtKeys}

Absent == [t |-> "absent"]

\* the consumes of an operation: no key, a list, or the null of an empty
\* YAML key
CtConsumes ==
    {Absent, None, L(<<>>), L(<<S("text/csv")>>),
     L(<<S("text/csv"), S("application/xml"), S("multipart/form-data")>>)}

CtOperation(keys, consumes) ==
    D((IF keys = <<>> THEN <<>>
       ELSE <<KV("requestBody",
                 D(<<KV("content", D([i \in 1..Len(keys) |-> KV(keys[i], EmptyDict)]))>>))>>)
      \o (IF consumes = Absent THEN <<>> ELSE <<KV("consumes", consumes)>>)
      \o <<KV("summary", S("Create"))>>)

\* the operation alone, or behind a path of the same shape that declares
\* nothing for the method
CtDocument(operation, behind) ==
    D(<<KV("paths",
           D((IF behind THEN <<KV("/items/{item_id}", D(<<KV("post", EmptyDict)>>))>> ELSE <<>>)
             \o <<KV("/items/{id}", D(<<KV("post", operation)>>))>>))>>)

CtMethods == {"POST", "post", "GET"}
CtPaths == {"/items/{id}", "items/{item_id}/", "/orders"}

InitCT ==
    /\ projects = <<>>
    /\ endpoints = <<>>
    /\ version_logs = <<>>
    /\ \E keys \in {q \in KeySeqs(MaxContentKeys) : Cardinality(Elems(q)) = Len(q)},
          consumes \in CtConsumes, behind \in BOOLEAN, method \in CtMethods, path \in CtPaths :
          last = [op |-> "extract_content_type_from_openapi",
                  in |-> [openapi |-> CtDocument(CtOperation(keys, consumes), behind),
                          method |-> method, path |-> path,
                          declared |-> keys, consumes |-> consumes,
                          matched |-> method # "GET" /\ path # "/orders"],
                  out |-> Pending]
    /\ tasks = NoTasks

CallExtractContentType ==
    /\ last.op = "extract_content_type_from_openapi"
    /\ last.out = Pending
    /\ last' = [last EXCEPT !.out = extract_content_type_from_openapi(
                                        last.in.openapi, last.in.method, last.in.path)]
    /\ UNCHANGED <<store, tasks>>

NextCT == CallExtractContentType

SpecCT == InitCT /\ [][NextCT]_vars

----------------------------------------------------------------------------
(* Specification SpecProps: extract_schema_properties applied to bounded   *)
(* schemas, passed directly or as a $ref into the document                 *)

MaxProps == 3

PropSchemas ==
    << KV("name", D(<<KV("type", S("string")), KV("minLength", N(2))>>)),
       KV("price", D(<<KV("type", S("integer"))>>)),
       KV("tag", D(<<KV("$ref", S("#/components/schemas/Tag"))>>)),
       KV("note", EmptyDict) >>

\* the properties a schema may have, and the names its required may list
PropNames == {PropSchemas[i][1] : i \in 1..(IF MaxProps < 4 THEN MaxProps ELSE 4)}
RequiredNames == PropNames \cup {"ghost"}

\* no required key, or a required array that lists names
RequiredArrays ==
    {[present |-> FALSE, names |-> {}]}
       \cup {[present |-> TRUE, names |-> n] : n \in SUBSET RequiredNames}

\* the schema with the properties of names, in the order of PropSchemas, and
\* the required array listed
PropsSchema(names, listed) ==
    D(<<KV("type", S("object"))>>
      \o (IF ~listed.present THEN <<>>
          ELSE <<KV("required",
                    L([i \in 1..Len(SelectSeq(<<"ghost", "tag", "price", "name", "note">>,
                                             LAMBDA n : n \in listed.names)) |->
                         S(SelectSeq(<<"ghost", "tag", "price", "name", "note">>,
                                     LAMBDA n : n \in listed.names)[i])]))>>)
      \o <<KV("properties", D(SelectSeq(PropSchemas, LAMBDA kv : kv[1] \in names)))>>)

\* a document that holds the schema under components.schemas.Target
PropsDocument(schema) ==
    D(<<KV("openapi", S("3.0.0")), KV("info", Info),
        KV("components", D(<<KV("schemas", D(<<KV("Tag", TagSchema),
                                               KV("Target", schema)>>))>>))>>)

TargetRef == D(<<KV("$ref", S("#/components/schemas/Target"))>>)

InitProps ==
    /\ projects = <<>>
    /\ endpoints = <<>>
    /\ version_logs = <<>>
    /\ \E names \in SUBSET PropNames, listed \in RequiredArrays, by_ref \in BOOLEAN :
          last = [op |-> "extract_schema_properties",
                  in |-> [schema |-> IF by_ref THEN TargetRef
                                     ELSE PropsSchema(names, listed),
                          openapi_spec |-> PropsDocument(PropsSchema(names, listed)),
                          names |-> names, listed |-> listed, by_ref |-> by_ref],
                  out |-> Pending]
    /\ tasks = NoTasks

CallExtractSchemaProperties ==
    /\ last.op = "extract_schema_properties"
    /\ last.out = Pending
    /\ last' = [last EXCEPT !.out = extract_schema_properties(
                                        New(last.in.schema), last.in.openapi_spec)
                                    .result.val]
    /\ UNCHANGED <<store, tasks>>

NextProps == CallExtractSchemaProperties

SpecProps == InitProps /\ [][NextProps]_vars

----------------------------------------------------------------------------
(* Specification SpecUrl: parse_curl applied to commands whose URLs differ  *)
(* in their first path segment                                             *)

UrlSchemes == {"http", "https"}
UrlHost == "api.example.com"
UrlFirstSegments ==
    {"v1", "v2", "v10", "v1beta", "v2ray", "V1", "v", "version", "users", "api"}
UrlRests == {"", "/users", "/users/7"}
UrlQueries == {"", "?page=2"}

InitUrl ==
    /\ projects = <<>>
    /\ endpoints = <<>>
    /\ version_logs = <<>>
    /\ \E scheme \in UrlSchemes, first \in UrlFirstSegments, rest \in UrlRests,
          query \in UrlQueries :
          last = [op |-> "parse_curl",
                  in |-> [curl |-> "curl '" \o scheme \o "://" \o UrlHost \o "/" \o first
                                      \o rest \o query \o "'",
                          scheme |-> scheme, first |-> first, rest |-> rest],
                  out |-> Pending]
    /\ tasks = NoTasks

CallParseCurl ==
    /\ last.op = "parse_curl"
    /\ last.out = Pending
    /\ last' = [last EXCEPT !.out = parse_curl(last.in.curl)]
    /\ UNCHANGED <<store, tasks>>

NextUrl == CallParseCurl

SpecUrl == InitUrl /\ [][NextUrl]_vars

----------------------------------------------------------------------------
(* Specification SpecExample: generate_field_example applied to bounded    *)
(* field descriptors                                                       *)

MaxMinimum == 3
MaxLength == 13

Optional(values) == {Absent} \cup values

\* a stored descriptor: a key is there when its value is not Absent
FieldInfo(type, format, title, min_length, max_length, minimum, maximum) ==
    D(SelectSeq(<< KV("type", S(type)), KV("format", format), KV("title", S(title)),
                   KV("minLength", min_length), KV("maxLength", max_length),
                   KV("minimum", minimum), KV("maximum", maximum) >>,
                LAMBDA kv : kv[2] # Absent))

IntegerTitles == {"", "Id", "user_id", "Width", "top_n", "Top_N rows", "top_n id", "Count"}
KeywordTitles ==
    {"", "Email", "Username", "User_Name", "Access Token", "Title", "Content", "Name",
     "Role", "Note", "Token Title", "Role name", "Email content", "username token",
     "Full Name", "content role"}
Formats == Optional({S("password"), S("email"), S("date")})
Lengths == Optional({N(n) : n \in 0..MaxLength})
Minimums == Optional({N(n) : n \in (0 - MaxMinimum)..MaxMinimum})
Maximums == Optional({N(0), N(2), N(100)})

ExampleCases ==
    {[type |-> "integer", format |-> Absent, title |-> title, min_length |-> Absent,
      max_length |-> Absent, minimum |-> minimum, maximum |-> maximum] :
        title \in IntegerTitles, minimum \in Minimums, maximum \in Maximums}
    \cup
    {[type |-> "string", format |-> format, title |-> title, min_length |-> min_length,
      max_length |-> Absent, minimum |-> Absent, maximum |-> Absent] :
        format \in Formats, title \in KeywordTitles, min_length \in {Absent, N(MaxLength)}}
    \cup
    {[type |-> "string", format |-> Absent, title |-> title, min_length |-> min_length,
      max_length |-> max_length, minimum |-> Absent, maximum |-> Absent] :
        title \in {"", "Note"}, min_length \in Lengths, max_length \in Lengths}

InitExample ==
    /\ projects = <<>>
    /\ endpoints = <<>>
    /\ version_logs = <<>>
    /\ \E c \in ExampleCases :
          last = [op |-> "generate_field_example",
                  in |-> [field_info |-> FieldInfo(c.type, c.format, c.title, c.min_length,
                                                   c.max_length, c.minimum, c.maximum)]
                         @@ c,
                  out |-> Pending]
    /\ tasks = NoTasks

CallGenerateFieldExample ==
    /\ last.op = "generate_field_example"
    /\ last.out = Pending
    /\ last' = [last EXCEPT !.out = generate_field_example(last.in.field_info)]
    /\ UNCHANGED <<store, tasks>>

NextExample == CallGenerateFieldExample

SpecExample == InitExample /\ [][NextExample]_vars

----------------------------------------------------------------------------
(* Specification SpecPar: uploads that run at the same time.  Each request *)
(* is a coroutine with its own session; the event loop switches between   *)
(* them at the awaits: session.flush, every generate_description, and     *)
(* session.commit.  tasks.of[t] is the coroutine of request t and          *)
(* tasks.operation_status the one module-level mapping of the service.    *)

MaxTasks == 2

ParSources ==
    {[kind |-> "openapi", openapi_json |-> DocShop, curl |-> ""],
     [kind |-> "openapi", openapi_json |-> DocShared, curl |-> ""],
     [kind |-> "openapi", openapi_json |-> DocBroken, curl |-> ""],
     [kind |-> "curl", openapi_json |-> None, curl |-> CurlJsonBody]}

\* code.py line 23: the mapping as the module creates it
operation_status == EmptyDict

\* the primary key the database gives to the next flushed Project
par_next_project_id ==
    1 + Cardinality({t \in 1..MaxTasks : tasks.of[t].pc # "start"})

par_project_id_latest(own, latest) == latest

\* openapi.py line 61, curl.py line 50: the project id a request attaches
\* its endpoints to is project.id of the Project it flushed itself
par_project_id(own, latest) == own

\* what extract_endpoints of request t adds, in order
par_extract(task) ==
    extract_endpoints(task.openapi_json,
                      par_project_id(task.project_id, par_next_project_id - 1),
                      AiAnswers)

InitPar ==
    /\ projects = <<>>
    /\ endpoints = <<>>
    /\ version_logs = <<>>
    /\ last = [op |-> "none", in |-> None, out |-> None]
    /\ \E sources \in [1..MaxTasks -> ParSources] :
          tasks = [operation_status |-> operation_status,
                   of |-> [t \in 1..MaxTasks |->
                             sources[t] @@ [pc |-> "start", project_id |-> 0,
                                            added |-> <<>>]]]

\* openapi.py lines 50-53, curl.py lines 22-27: the session opens, the
\* Project is added and flushed
ParFlush(t) ==
    /\ tasks.of[t].pc = "start"
    /\ tasks' = [tasks EXCEPT !.of[t].pc = IF tasks.of[t].kind = "curl" THEN "commit"
                                           ELSE "extract",
                              !.of[t].project_id = par_next_project_id]
    /\ UNCHANGED <<store, last>>

par_autocommit(added) == added

\* openapi.py lines 50-62, curl.py lines 80-81: a session block that is left
\* by an exception commits none of the rows added to the session
par_rollback(added) == <<>>

\* openapi_parser.py lines 73-141: one turn of the loop, from the await of
\* generate_description to session.add(endpoint); an exception leaves the
\* session block, which rolls back
ParDescribe(t) ==
    /\ tasks.of[t].pc = "extract"
    /\ \E r \in {par_extract(tasks.of[t])} :
       \E k \in {Len(tasks.of[t].added) + 1} :
          /\ k <= Len(r.added) \/ r.exc # None
          /\ IF k <= Len(r.added)
             THEN /\ tasks' = [tasks EXCEPT !.of[t].added = Append(@, r.added[k])]
                  /\ UNCHANGED <<store, last>>
             ELSE /\ tasks' = [tasks EXCEPT !.of[t].pc = "failed"]
                  /\ last' = [op |-> "upload_openapi", in |-> S(BaseUrl),
                              out |-> Response(500, r.exc.exc)]
                  /\ endpoints' = endpoints \o WithIds(par_rollback(tasks.of[t].added),
                                                        Len(endpoints))
                  /\ UNCHANGED <<projects, version_logs>>

\* openapi.py lines 55-64, curl.py lines 49-72: the VersionLog is added and
\* the session commits the Project, the VersionLog and the Endpoints
ParCommit(t) ==
    LET task == tasks.of[t]
        id == par_project_id(task.project_id, par_next_project_id - 1)
        commit(project, version_log, added) ==
            /\ projects' = Append(projects, project)
            /\ version_logs' = Append(version_logs, version_log)
            /\ endpoints' = endpoints \o WithIds(added, Len(endpoints))
    IN /\ \/ task.pc = "commit"
          \/ /\ task.pc = "extract"
             /\ \E r \in {par_extract(task)} :
                   Len(task.added) = Len(r.added) /\ r.exc = None
       /\ IF task.kind = "curl"
          THEN \E parsed \in {parse_curl(task.curl)} :
                  commit(curl_project(parsed, task.project_id),
                         curl_version_log(task.curl, parsed, Len(version_logs) + 1, id),
                         <<[x \in {"project_id", "path", "method", "summary",
                                   "requires_auth", "request_body"} |->
                               curl_endpoint(parsed, 0, id)[x]]>>)
          ELSE commit([id |-> task.project_id,
                       name |-> info_title(task.openapi_json).s,
                       base_url |-> BaseUrl],
                      [id |-> Len(version_logs) + 1, project_id |-> id,
                       raw_openapi |-> json_dumps(task.openapi_json)],
                      task.added)
       /\ tasks' = [tasks EXCEPT !.of[t].pc = "done"]
       /\ last' = [op |-> "upload_" \o task.kind, in |-> None,
                   out |-> [status |-> 200, detail |-> "uploaded and parsed",
                            project_id |-> task.project_id]]

\* curl.py lines 72, 80-83, openapi.py lines 62, 100: the database refuses
\* the commit; upload_curl rolls back and answers 500, upload_openapi leaves
\* the session block by the exception
ParDatabaseError(t) ==
    /\ tasks.of[t].pc \in {"extract", "commit"}
    /\ tasks' = [tasks EXCEPT !.of[t].pc = "failed"]
    /\ last' = [op |-> "upload_" \o tasks.of[t].kind, in |-> None,
                out |-> Response(500, "Database error")]
    /\ endpoints' = endpoints \o WithIds(par_rollback(tasks.of[t].added), Len(endpoints))
    /\ UNCHANGED <<projects, version_logs>>

\* openapi.py lines 130-262: a templates request between the steps of the
\* uploads; its selects see the committed rows
ParGetProjectTemplates ==
    /\ \E project_id \in 1..MaxTasks : get_project_templates(project_id, AiAnswers)
    /\ UNCHANGED tasks

NextPar ==
    \/ \E t \in 1..MaxTasks :
          ParFlush(t) \/ ParDescribe(t) \/ ParCommit(t) \/ ParDatabaseError(t)
    \/ ParGetProjectTemplates

SpecPar == InitPar /\ [][NextPar]_vars

----------------------------------------------------------------------------
(* C1 *)

UploadOps == {"upload_openapi", "upload_openapi_file"}

\* the text an upload request carries
UploadedText(l) == IF l.op = "upload_openapi" THEN l.in.fetch.text ELSE l.in.file.text

\* whether the handler got as far as parsing the text
TextWasRead(l) ==
    IF l.op = "upload_openapi" THEN ~l.in.fetch.error /\ l.in.fetch.status = 200
    ELSE l.in.file.decodes

NeitherJsonNorYaml(text) == text.syntax \notin {"json", "yaml"}

LacksInfoTitle(document) ==
    ~(/\ IsDict(document)
      /\ Has(document, "info")
      /\ IsDict(Get(document, "info"))
      /\ Has(Get(document, "info"), "title"))

\* C1: an upload_openapi or upload_openapi_file request whose text is neither
\* valid JSON nor valid YAML, or whose parsed document lacks info.title, is
\* answered with HTTP 400 and leaves projects, version logs and endpoints as
\* they were.
C1_BadDocumentIs400 ==
    [][(/\ last'.op \in UploadOps
        /\ TextWasRead(last')
        /\ \/ NeitherJsonNorYaml(UploadedText(last'))
           \/ LacksInfoTitle(UploadedText(last').value))
       => (last'.out.status = 400 /\ store' = store)]_vars

----------------------------------------------------------------------------
(* C2 *)

HttpMethods == {"GET", "POST", "PUT", "DELETE", "PATCH", "HEAD", "OPTIONS"}

\* C2: after any sequence of OpenAPI and cURL uploads every persisted endpoint
\* has a non-empty path and a method that is one of GET, POST, PUT, DELETE,
\* PATCH, HEAD, OPTIONS in upper case.
C2_EndpointsHaveHttpMethod ==
    \A i \in 1..Len(endpoints) :
        endpoints[i].path # "" /\ endpoints[i].method \in HttpMethods

----------------------------------------------------------------------------
(* C3 *)

\* the commands whose body gives no structured fields under the declared
\* Content-Type: a JSON text that is no object, a text that is no JSON, a
\* text with no Content-Type
CurlUnstructured == {CurlJsonList, CurlJsonCut, CurlPlainText}

CurlUploaded == last.op = "upload_curl" /\ last.out.status = 200

\* what upload_curl stored last
CurlEndpoint == endpoints[Len(endpoints)]
CurlLog == json_loads(version_logs[Len(version_logs)].raw_openapi)

\* C3: for a cURL command whose body cannot be turned into structured fields
\* under the declared Content-Type, parse_curl does not raise: upload_curl
\* answers no error and persists the endpoint, with no structured request
\* body and with the raw body text retained.
C3_UnstructuredBodyIsKept ==
    (last.op = "upload_curl" /\ last.in.curl \in CurlUnstructured) =>
        /\ CurlUploaded
        /\ CurlEndpoint.request_body = None
        /\ IsStr(Get(CurlLog, "body"))

----------------------------------------------------------------------------
(* C4 *)

CurlProjectIds == {projects[i].id : i \in {k \in 1..Len(projects) : projects[k].name = "From cURL"}}

\* the keys of the JSON object a raw body holds, none when it holds no object
JsonBodyKeys(body) ==
    IF ~IsStr(body) THEN {}
    ELSE LET json_obj == json_loads_body(body.s)
         IN IF IsDict(json_obj) THEN Elems(Keys(json_obj)) ELSE {}

TemplatesDone == last.op = "get_project_templates" /\ last.out.status = 200

\* C4: every non-null request_body persisted by the cURL path keeps its
\* descriptors under a `fields` mapping, as the OpenAPI path does, and the
\* template of a cURL endpoint with a JSON body has a body with one entry per
\* top-level key of that body.
C4_CurlBodyUnderFields ==
    /\ \A i \in 1..Len(endpoints) :
          (endpoints[i].project_id \in CurlProjectIds /\ endpoints[i].request_body # None)
          => LET data == json_loads(endpoints[i].request_body)
             IN IsDict(data) /\ Has(data, "fields") /\ IsDict(Get(data, "fields"))
    /\ (TemplatesDone /\ last.in.project_id \in CurlProjectIds)
       => LET log == json_loads(VersionLogsOf(last.in.project_id)[1].raw_openapi)
              keys == IF GetNone(Get(log, "headers"), "Content-Type") = S("application/json")
                      THEN JsonBodyKeys(Get(log, "body")) ELSE {}
              template == last.out.templates[1]
          IN keys # {} => (Has(template, "body") /\ Elems(Keys(Get(template, "body"))) = keys)

----------------------------------------------------------------------------
(* C5 *)

\* the names of the descriptors a persisted request_body holds, with their
\* places; a descriptor with no `in` is one of the body
DescriptorsOf(request_body) ==
    LET data == IF request_body = None THEN EmptyDict ELSE json_loads(request_body)
        under(k) == IF IsDict(data) /\ Has(data, k) /\ IsDict(Get(data, k))
                    THEN Get(data, k).d ELSE <<>>
        all == under("fields") \o under("properties")
    IN {<<all[i][1], GetOr(all[i][2], "in", S("body")).s>> : i \in 1..Len(all)}

\* C5: for a cURL command with both URL query parameters and a JSON body, the
\* endpoint upload_curl persists holds a descriptor for every query parameter
\* (in = query) and for every key of the body.
C5_QueryAndBodyDescriptors ==
    CurlUploaded =>
        LET query == {Get(p, "name").s : p \in Elems(Get(CurlLog, "parameters").l)}
            keys == IF GetNone(Get(CurlLog, "headers"), "Content-Type") = S("application/json")
                    THEN JsonBodyKeys(Get(CurlLog, "body")) ELSE {}
            found == DescriptorsOf(CurlEndpoint.request_body)
        IN (query # {} /\ keys # {}) =>
              /\ \A name \in query : <<name, "query">> \in found
              /\ \A name \in keys : \E d \in found : d[1] = name /\ d[2] # "query"

----------------------------------------------------------------------------
(* C6 *)

\* the endpoints and the stored document the last templates were made of
TemplateEndpoints == EndpointsOf(last.in.project_id)
TemplateDocument == json_loads(VersionLogsOf(last.in.project_id)[1].raw_openapi)

\* C6: for an endpoint of an OpenAPI upload whose template carries a body, the
\* Content-Type header of the template is the content type that
\* extract_content_type_from_openapi returns for the stored document, the
\* method and the path of the endpoint.
C6_TemplateContentTypeIsResolved ==
    (TemplatesDone /\ last.in.project_id \notin CurlProjectIds) =>
        \A i \in 1..Len(last.out.templates) :
            LET template == last.out.templates[i]
            IN Has(template, "body") =>
                  GetNone(Get(template, "headers"), "Content-Type") =
                      extract_content_type_from_openapi(TemplateDocument,
                                                        TemplateEndpoints[i].method,
                                                        TemplateEndpoints[i].path)

----------------------------------------------------------------------------
(* C7 *)

C7_FixedList ==
    <<"application/x-www-form-urlencoded", "multipart/form-data", "application/json",
      "application/xml", "text/plain">>

\* the choice among declared content types: the first entry of the fixed
\* list that is declared, else the first declared, "" when none is declared
C7_Choice(declared) ==
    LET listed == {i \in 1..Len(C7_FixedList) : C7_FixedList[i] \in Elems(declared)}
    IN IF listed # {} THEN C7_FixedList[CHOOSE i \in listed : \A j \in listed : i <= j]
       ELSE IF declared # <<>> THEN declared[1]
       ELSE ""

\* the content types an operation consumes, none when it declares no list
C7_Consumed(consumes) ==
    IF consumes.t = "list" THEN [i \in 1..Len(consumes.l) |-> consumes.l[i].s] ELSE <<>>

C7_Expected(in) ==
    IF ~in.matched THEN "application/json"
    ELSE IF C7_Choice(in.declared) # "" THEN C7_Choice(in.declared)
    ELSE IF C7_Choice(C7_Consumed(in.consumes)) # "" THEN C7_Choice(C7_Consumed(in.consumes))
    ELSE "application/json"

ExtractContentTypeDone ==
    last.op = "extract_content_type_from_openapi" /\ last.out # Pending

\* C7: extract_content_type_from_openapi never fails; for the matched
\* operation it returns the first entry of the fixed list that is a key of
\* requestBody.content, whatever the declaration order, else the first
\* declared content key, else the same choice among `consumes`, and
\* application/json when nothing is found.
C7_ContentTypeChoice ==
    ExtractContentTypeDone =>
        (~IsRaise(last.out) /\ last.out = S(C7_Expected(last.in)))

----------------------------------------------------------------------------
(* C8 *)

\* the body fields of an endpoint: the entries of the `fields` of its stored
\* request_body that are no query, path or header parameter
BodyFields(endpoint) ==
    LET data == IF endpoint.request_body = None THEN EmptyDict
                ELSE json_loads(endpoint.request_body)
        fields == IF IsDict(data) /\ Has(data, "fields") THEN Get(data, "fields").d ELSE <<>>
    IN {fields[i][1] : i \in {k \in 1..Len(fields) :
                                GetOr(fields[k][2], "in", S("body")).s
                                    \notin {"query", "path", "header"}}}

\* C8: every template get_project_templates returns has the header accept:
\* application/json, has the header Authorization: Bearer
\* YOUR_ACCESS_TOKEN_HERE exactly when the endpoint requires auth, has the
\* header Content-Type exactly when it has a body key, and has a body key
\* exactly when the endpoint has at least one body field.
C8_TemplateHeadersAndBody ==
    TemplatesDone =>
        \A i \in 1..Len(last.out.templates) :
            LET template == last.out.templates[i]
                headers == Get(template, "headers")
                endpoint == TemplateEndpoints[i]
            IN /\ GetNone(headers, "accept") = S("application/json")
               /\ Has(headers, "Authorization") <=> endpoint.requires_auth
               /\ Has(headers, "Authorization") =>
                      Get(headers, "Authorization") = S("Bearer YOUR_ACCESS_TOKEN_HERE")
               /\ Has(headers, "Content-Type") <=> Has(template, "body")
               /\ Has(template, "body") <=> BodyFields(endpoint) # {}

\* templates of one project: one with a body, a Content-Type and an
\* Authorization; one with no body and no Authorization; one with no body
\* for an endpoint whose stored fields are all parameters
C8_Witness ==
    /\ TemplatesDone
    /\ \E i, j, k \in 1..Len(last.out.templates) :
          /\ Has(last.out.templates[i], "body")
          /\ Has(Get(last.out.templates[i], "headers"), "Content-Type")
          /\ Has(Get(last.out.templates[i], "headers"), "Authorization")
          /\ ~Has(last.out.templates[j], "body")
          /\ ~Has(Get(last.out.templates[j], "headers"), "Authorization")
          /\ ~Has(last.out.templates[k], "body")
          /\ TemplateEndpoints[k].request_body # None
          /\ BodyFields(TemplateEndpoints[k]) = {}

----------------------------------------------------------------------------
(* C9 *)

\* every mapping of the document reached from obj through mappings only, with
\* the keys that lead to it
RECURSIVE MappingsUnder(_, _)
MappingsUnder(obj, keys) ==
    IF ~IsDict(obj) THEN {}
    ELSE {<<keys, obj>>} \cup
         UNION {MappingsUnder(obj.d[i][2], Append(keys, obj.d[i][1])) : i \in 1..Len(obj.d)}

\* the mappings a ref of the form #/a/b/c points to: a segment holds no "/"
RefTargets(ref, document) ==
    {ko \in MappingsUnder(document, <<>>) :
        /\ Len(ko[1]) >= 1
        /\ \A i \in 1..Len(ko[1]) : ~Contains(ko[1][i], "/")
        /\ ref = "#/" \o Join(ko[1], "/")}

ResolveRefDone == last.op = "resolve_ref" /\ last.out # Pending

\* C9: resolve_ref(ref, document) never raises; for a ref #/a/b/c whose
\* segments lead through nested mappings to a mapping it returns exactly that
\* mapping, and for every other ref string the empty mapping.
C9_ResolveRefExact ==
    ResolveRefDone =>
        LET targets == RefTargets(last.in.ref, last.in.openapi_spec)
        IN /\ ~IsRaise(last.out)
           /\ targets # {} => \A ko \in targets : last.out = ko[2]
           /\ targets = {} => last.out = EmptyDict

\* a three-segment ref that resolved to a non-empty mapping
C9_Witness ==
    /\ ResolveRefDone
    /\ last.in.ref = "#/components/schemas/Item"
    /\ last.out = ItemSchema

----------------------------------------------------------------------------
(* C10 *)

\* an upload that got as far as extract_endpoints
ExtractEndpointsRan == last.op \in UploadOps /\ "openapi_json" \in DOMAIN last.out

\* C10: the document handed to extract_endpoints is, after the run with its
\* calls of resolve_ref and extract_schema_properties, what it was before:
\* merging the parameters of an operation into the fields of an endpoint
\* writes into no schema of the document, not into one reached through a
\* $ref that several operations share.
C10_DocumentUnchanged ==
    ExtractEndpointsRan =>
        last.out.openapi_json = parse_openapi_content(UploadedText(last))

\* two operations that share the schema #/components/schemas/Item were
\* ingested, and parameters were merged into the fields of both
C10_Witness ==
    /\ ExtractEndpointsRan
    /\ last.out.status = 200
    /\ last.out.openapi_json = DocShared
    /\ Len(endpoints) = 2
    /\ \A i \in 1..2 :
          \E d \in DescriptorsOf(endpoints[i].request_body) : d[2] \in {"query", "path"}
    /\ \A i \in 1..2 :
          \E d \in DescriptorsOf(endpoints[i].request_body) : d[2] = "body"

----------------------------------------------------------------------------
(* C11 *)

\* C11: after any sequence of uploads no two persisted endpoints have the
\* same project_id, path and method: a document gives one record for each
\* (path, method) of its project.
C11_OneRecordPerOperation ==
    \A i, j \in 1..Len(endpoints) :
        i # j => <<endpoints[i].project_id, endpoints[i].path, endpoints[i].method>> #
                 <<endpoints[j].project_id, endpoints[j].path, endpoints[j].method>>

----------------------------------------------------------------------------
(* C12 *)

\* the rows a table holds are the first rows of the table after the step
Kept(before, after) ==
    Len(before) <= Len(after) /\ \A i \in 1..Len(before) : after[i] = before[i]

Ids(rows) == {rows[i].id : i \in 1..Len(rows)}

\* the rows a step added to a table
Added(before, after) == SubSeq(after, Len(before) + 1, Len(after))

\* C12: no request changes or deletes a committed project, endpoint or
\* version log; an upload, of a source ingested before as of any other, adds
\* one project with a new id and endpoints with new ids that all belong to
\* the new project.
C12_CommittedRowsStay ==
    [][/\ Kept(projects, projects')
       /\ Kept(endpoints, endpoints')
       /\ Kept(version_logs, version_logs')
       /\ projects' # projects =>
             /\ Len(projects') = Len(projects) + 1
             /\ projects'[Len(projects')].id \notin Ids(projects)
             /\ Ids(Added(endpoints, endpoints')) \cap Ids(endpoints) = {}
             /\ Cardinality(Ids(Added(endpoints, endpoints'))) = Len(endpoints') - Len(endpoints)
             /\ \A i \in (Len(endpoints) + 1)..Len(endpoints') :
                   endpoints'[i].project_id = projects'[Len(projects')].id
       /\ projects' = projects => endpoints' = endpoints /\ version_logs' = version_logs]_vars

\* one source was ingested twice: two projects with their own ids, each
\* with its own endpoints, and templates were asked for after that
C12_Witness ==
    /\ Len(projects) = 2
    /\ projects[1].id # projects[2].id
    /\ version_logs[1].raw_openapi = version_logs[2].raw_openapi
    /\ Len(EndpointsOf(projects[1].id)) > 1
    /\ Len(EndpointsOf(projects[2].id)) = Len(EndpointsOf(projects[1].id))
    /\ last.op = "get_project_templates"


----------------------------------------------------------------------------
(* C13 *)

NoId(row) == [x \in DOMAIN row \ {"id"} |-> row[x]]
NoIds(rows) == [i \in 1..Len(rows) |-> NoId(rows[i])]
LogsOf(project_id) == SelectSeq(version_logs, LAMBDA v : v.project_id = project_id)

\* what request t alone stores under project_id: its endpoints and the text
\* of its version log
AloneEndpoints(task, project_id) ==
    IF task.kind = "curl"
    THEN <<NoId(curl_endpoint(parse_curl(task.curl), 0, project_id))>>
    ELSE extract_endpoints(task.openapi_json, project_id, AiAnswers).added
AloneLog(task) ==
    IF task.kind = "curl"
    THEN curl_version_log(task.curl, parse_curl(task.curl), 0, 0).raw_openapi
    ELSE json_dumps(task.openapi_json)

Flushed == {t \in 1..MaxTasks : tasks.of[t].pc # "start"}
Committed == {t \in 1..MaxTasks : tasks.of[t].pc = "done"}

\* C13: however the steps of concurrent uploads interleave, every committed
\* request has a project of its own, that project holds exactly the endpoints
\* and the version log the request stores when it runs alone, every stored
\* endpoint belongs to the project of the request that added it, a request
\* that has not committed has stored nothing, and the module-level mapping
\* operation_status is as the module created it.
C13_InterleavedUploadsAreSerial ==
    /\ tasks.operation_status = operation_status
    /\ \A t, u \in Flushed : t # u => tasks.of[t].project_id # tasks.of[u].project_id
    /\ Len(projects) = Cardinality(Committed)
    /\ \A t \in Committed :
          /\ Len(ProjectsWithId(tasks.of[t].project_id)) = 1
          /\ NoIds(EndpointsOf(tasks.of[t].project_id))
                = AloneEndpoints(tasks.of[t], tasks.of[t].project_id)
          /\ Len(LogsOf(tasks.of[t].project_id)) = 1
          /\ LogsOf(tasks.of[t].project_id)[1].raw_openapi = AloneLog(tasks.of[t])
    /\ \A t \in (1..MaxTasks) \ Committed :
          /\ ProjectsWithId(tasks.of[t].project_id) = <<>>
          /\ EndpointsOf(tasks.of[t].project_id) = <<>>
          /\ LogsOf(tasks.of[t].project_id) = <<>>
    /\ \A i \in 1..Len(endpoints) :
          \E t \in Committed : endpoints[i].project_id = tasks.of[t].project_id
    /\ \A i, j \in 1..Len(endpoints) : i # j => endpoints[i].id # endpoints[j].id

\* two OpenAPI uploads of several operations each have both committed, and
\* the one that flushed first committed last
C13_Witness ==
    /\ Committed = 1..MaxTasks
    /\ Len(projects) = 2
    /\ projects[1].id = 2
    /\ projects[2].id = 1
    /\ \A t \in 1..MaxTasks : Len(EndpointsOf(tasks.of[t].project_id)) > 1


----------------------------------------------------------------------------
(* C14 *)

TemplatesAnswered(l) == l.op = "get_project_templates" /\ l.out.status = 200
WithoutDescription(template) ==
    D(SelectSeq(template.d, LAMBDA kv : kv[1] # "description"))
WithoutDescriptions(templates) ==
    [i \in 1..Len(templates) |-> WithoutDescription(templates[i])]

\* C14: a get_project_templates request leaves the three tables as they
\* were, and when it directly follows another one for the same project, the
\* two answers hold the same templates apart from their description fields.
C14_TemplatesRepeat ==
    [][last'.op = "get_project_templates" =>
          /\ store' = store
          /\ (TemplatesAnswered(last) /\ TemplatesAnswered(last')
                 /\ last'.in = last.in)
                => WithoutDescriptions(last'.out.templates)
                      = WithoutDescriptions(last.out.templates)]_vars

\* templates of a project of several endpoints, one with a body, have been
\* answered with the collaborator failing for one endpoint and not another,
\* while another project is stored as well
C14_Witness ==
    /\ TemplatesAnswered(last)
    /\ Len(projects) = 2
    /\ \E i, j, k \in 1..Len(last.out.templates) :
          /\ Get(last.out.templates[i], "description") = S(AiFallback)
          /\ Get(last.out.templates[j], "description") = S(AiText)
          /\ Has(last.out.templates[k], "body")


----------------------------------------------------------------------------
(* C15 *)

\* the operations extract_endpoints visits in a document, in document order
OperationsOf(document) == ee_visits(GetOr(document, "paths", EmptyDict).d, 1)

\* whether the collaborator failed for the i-th operation of the request
AiFailed(l, i) == i <= Len(l.in.ai) /\ ~l.in.ai[i]

\* C15: an upload during which the description collaborator failed ends as
\* it ends when the collaborator answers every time; when it ends with 200,
\* the project has one record for each operation of the document, in document
\* order, and the record of an operation the collaborator failed for has the
\* fallback text as its summary.
C15_AiFailureDoesNotAbort ==
    (last.op \in UploadOps /\ TextWasRead(last)
        /\ ~IsRaise(parse_openapi_content(UploadedText(last))))
    => LET document == parse_openapi_content(UploadedText(last))
           records == EndpointsOf(last.out.project_id)
       IN IF last.out.status = 200
          THEN /\ Len(records) = Len(OperationsOf(document))
               /\ \A i \in 1..Len(records) :
                     /\ records[i].path = OperationsOf(document)[i].path
                     /\ records[i].summary
                           = S(IF AiFailed(last, i) THEN AiFallback ELSE AiText)
          ELSE ingest_openapi(document, last.in.base_url, AiAnswers).out.status
                  = last.out.status

\* the collaborator failed for the first operation of an uploaded document
\* and answered for a later one; both have their records
C15_Witness ==
    /\ last.op \in UploadOps
    /\ last.out.status = 200
    /\ AiFailed(last, 1)
    /\ ~AiFailed(last, 2)
    /\ Len(EndpointsOf(last.out.project_id)) > 1
    /\ EndpointsOf(last.out.project_id)[1].summary = S(AiFallback)
    /\ EndpointsOf(last.out.project_id)[2].summary = S(AiText)


----------------------------------------------------------------------------
(* C16 *)

\* the operation of the i-th record of an uploaded document
OperationAt(document, i) ==
    Get(Get(Get(document, "paths"), OperationsOf(document)[i].path),
        OperationsOf(document)[i].method)

\* whether an operation has a requestBody whose content has several entries
SeveralContentTypes(operation) ==
    /\ Has(operation, "requestBody")
    /\ IsDict(Get(operation, "requestBody"))
    /\ IsDict(GetOr(Get(operation, "requestBody"), "content", None))
    /\ Len(Get(Get(operation, "requestBody"), "content").d) > 1

\* the names of the parameters of an operation
ParameterNames(operation) ==
    IF Has(operation, "parameters")
    THEN {GetNone(Get(operation, "parameters").l[k], "name") :
             k \in 1..Len(Get(operation, "parameters").l)}
    ELSE {}

\* the entries of a fields mapping whose name no parameter has
NotNamed(fields, names) == SelectSeq(fields.d, LAMBDA kv : S(kv[1]) \notin names)

\* what the schema of a content entry resolves to
FieldsOfEntry(entry, document) ==
    extract_schema_properties(New(GetOr(entry[2], "schema", EmptyDict)), document)
        .result.val

\* C16: the record of an operation whose requestBody.content has several
\* entries has the key of the first entry as content_type, the requestBody's
\* required (false when it has none) as required, and, apart from the fields
\* its parameters name, the fields of the schema of the first entry.
C16_FirstContentEntryOnly ==
    (last.op \in UploadOps /\ last.out.status = 200)
    => LET document == parse_openapi_content(UploadedText(last))
           records == EndpointsOf(last.out.project_id)
           first(operation) == Get(Get(operation, "requestBody"), "content").d[1]
           holds(operation, request_body) ==
               /\ Get(request_body, "content_type") = S(first(operation)[1])
               /\ Get(request_body, "required")
                     = GetOr(Get(operation, "requestBody"), "required", B(FALSE))
               /\ NotNamed(Get(request_body, "fields"), ParameterNames(operation))
                     = NotNamed(FieldsOfEntry(first(operation), document),
                                ParameterNames(operation))
       IN \A i \in 1..Len(records) :
             SeveralContentTypes(OperationAt(document, i))
                => holds(OperationAt(document, i), json_loads(records[i].request_body))

\* a stored record of an operation with two content entries of different
\* schemas, a required body and a parameter
C16_Witness ==
    /\ last.op \in UploadOps
    /\ last.out.status = 200
    /\ parse_openapi_content(UploadedText(last)) = DocReplace
    /\ Len(EndpointsOf(last.out.project_id)) = 1
    /\ SeveralContentTypes(OpReplace)
    /\ Keys(Get(json_loads(EndpointsOf(last.out.project_id)[1].request_body), "fields"))
          = <<"file", "item_id">>
    /\ Get(json_loads(EndpointsOf(last.out.project_id)[1].request_body), "required")
          = B(TRUE)


----------------------------------------------------------------------------
(* C17 *)

\* whether a fields mapping has, under the name of a parameter, a descriptor
\* with the parameter's in, required and type
FieldOfParameter(fields, param) ==
    /\ IsStr(GetNone(param, "name"))
    /\ Has(fields, Get(param, "name").s)
    /\ LET field == Get(fields, Get(param, "name").s)
       IN /\ GetNone(field, "in") = GetNone(param, "in")
          /\ GetNone(field, "required") = GetOr(param, "required", B(FALSE))
          /\ GetNone(field, "type")
                = GetOr(GetOr(param, "schema", EmptyDict), "type", S("string"))

\* C17: the record of an operation that has parameters and no requestBody
\* has, for every entry of the parameters array, a field of the entry's name
\* with the entry's in, required and type.
C17_EveryParameterHasField ==
    (last.op \in UploadOps /\ last.out.status = 200)
    => LET document == parse_openapi_content(UploadedText(last))
           records == EndpointsOf(last.out.project_id)
           holds(parameters, request_body) ==
               \A k \in 1..Len(parameters.l) :
                  FieldOfParameter(Get(request_body, "fields"), parameters.l[k])
       IN \A i \in 1..Len(records) :
             (/\ Has(OperationAt(document, i), "parameters")
              /\ ~Has(OperationAt(document, i), "requestBody"))
                => holds(Get(OperationAt(document, i), "parameters"),
                         json_loads(records[i].request_body))


----------------------------------------------------------------------------
(* C18 *)

\* whether an operation has a non-empty security array
DeclaresSecurity(operation) ==
    /\ Has(operation, "security")
    /\ Get(operation, "security").t = "list"
    /\ Len(Get(operation, "security").l) > 0

\* whether a command has a -H option whose header is Authorization; header
\* names are compared as HTTP compares them, without regard to case
DeclaresAuthorization(curl) ==
    \E i \in 1..(Len(curl) - 17) :
       /\ SubSeq(curl, i, i + 2) = "-H "
       /\ IsQuote(CharAt(curl, i + 3))
       /\ Lower(SubSeq(curl, i + 4, i + 17)) = "authorization:"

\* C18: the requires_auth of a stored endpoint is true exactly when its
\* operation has a non-empty security array (OpenAPI) or its command has an
\* Authorization header among its -H options (cURL).
C18_RequiresAuthIffDeclared ==
    /\ (last.op \in UploadOps /\ last.out.status = 200)
       => \A i \in 1..Len(EndpointsOf(last.out.project_id)) :
             EndpointsOf(last.out.project_id)[i].requires_auth
                <=> DeclaresSecurity(OperationAt(parse_openapi_content(UploadedText(last)),
                                                 i))
    /\ CurlUploaded => (CurlEndpoint.requires_auth <=> DeclaresAuthorization(last.in.curl))


----------------------------------------------------------------------------
(* C19 *)

ExtractSchemaPropertiesDone ==
    last.op = "extract_schema_properties" /\ last.out # Pending

\* C19: extract_schema_properties gives one descriptor to every property of
\* the schema it is passed, directly or through a $ref, and the required of
\* the descriptor is true when the schema's required array lists the name of
\* the property, false when it does not or when the schema has no required.
C19_RequiredIffListed ==
    ExtractSchemaPropertiesDone
    => /\ KeySet(last.out) = last.in.names
       /\ \A name \in last.in.names :
             Get(Get(last.out, name), "required")
                = B(last.in.listed.present /\ name \in last.in.listed.names)

\* a schema passed through a $ref whose required lists one of its properties,
\* does not list another, and lists a name that is no property
C19_Witness ==
    /\ ExtractSchemaPropertiesDone
    /\ last.in.by_ref
    /\ last.in.listed.present
    /\ "ghost" \in last.in.listed.names
    /\ \E a, b \in last.in.names :
          /\ Get(Get(last.out, a), "required") = B(TRUE)
          /\ Get(Get(last.out, b), "required") = B(FALSE)


----------------------------------------------------------------------------
(* C20 *)

ParseCurlDone == last.op = "parse_curl" /\ last.out # Pending

\* v<digits>: the letter v and then one digit or more, and nothing else
IsVersionSegment(segment) ==
    /\ Len(segment) > 1
    /\ CharAt(segment, 1) = "v"
    /\ IsDigits(SubSeq(segment, 2, Len(segment)))

\* C20: when the first path segment of the URL is v<digits>, parse_curl gives
\* base_url = scheme://host/<segment> and path = "/" and the remaining
\* segments; for any other first segment it gives base_url = scheme://host
\* and the whole URL path as path.
C20_VersionPrefixIffVDigits ==
    ParseCurlDone
    => IF IsVersionSegment(last.in.first)
       THEN /\ Get(last.out, "base_url")
                  = S(last.in.scheme \o "://" \o UrlHost \o "/" \o last.in.first)
            /\ Get(last.out, "path")
                  = S(IF last.in.rest = "" THEN "/" ELSE last.in.rest)
       ELSE /\ Get(last.out, "base_url") = S(last.in.scheme \o "://" \o UrlHost)
            /\ Get(last.out, "path") = S("/" \o last.in.first \o last.in.rest)


----------------------------------------------------------------------------
(* C21 *)

GenerateFieldExampleDone(type) ==
    last.op = "generate_field_example" /\ last.out # Pending /\ last.in.type = type

\* C21: for an integer field generate_field_example returns 1 when the title
\* holds "id" in any case, else 10 when it holds "top_n", else the larger of
\* the declared minimum and 1, and 1 when no minimum is declared; the
\* declared maximum plays no part.
C21_IntegerExample ==
    GenerateFieldExampleDone("integer")
    => last.out = N(IF Contains(Lower(last.in.title), "id") THEN 1
                    ELSE IF Contains(Lower(last.in.title), "top_n") THEN 10
                    ELSE IF last.in.minimum = Absent THEN 1
                    ELSE Max(last.in.minimum.n, 1))

\* an integer field without keyword in its title, with a minimum above 1 and
\* a maximum below it, has got its example
C21_Witness ==
    /\ GenerateFieldExampleDone("integer")
    /\ last.in.title = "Count"
    /\ last.in.minimum = N(MaxMinimum)
    /\ last.in.maximum = N(0)
    /\ last.out = N(MaxMinimum)


----------------------------------------------------------------------------
(* C22 *)

\* the rules for a string field in their order: the format that fires the
\* rule, the words one of which the title holds, and the example
StringRules ==
    << [format |-> {S("password")}, words |-> {}, example |-> "your_password_here"],
       [format |-> {S("email")}, words |-> {"email"}, example |-> "user@example.com"],
       [format |-> {}, words |-> {"username", "user_name"}, example |-> "your_username"],
       [format |-> {}, words |-> {"token"}, example |-> "your_token_here"],
       [format |-> {}, words |-> {"title"}, example |-> "Sample Title"],
       [format |-> {}, words |-> {"content"}, example |-> "Sample content"],
       [format |-> {}, words |-> {"name"}, example |-> "Sample Name"],
       [format |-> {}, words |-> {"role"}, example |-> "admin"] >>

IsPrefix(a, b) == Len(a) <= Len(b) /\ SubSeq(b, 1, Len(a)) = a

RuleMatches(rule, format, title) ==
    format \in rule.format \/ \E w \in rule.words : Contains(Lower(title), w)

MatchingRules(format, title) ==
    {i \in 1..Len(StringRules) : RuleMatches(StringRules[i], format, title)}

\* C22: for a string field generate_field_example returns the example of the
\* first rule, in the order of StringRules, whose format or word matches
\* (words are looked for in the lower-cased title), and the base placeholder,
\* cut or lengthened, when no rule matches.
C22_FirstStringRule ==
    GenerateFieldExampleDone("string")
    => LET matching == MatchingRules(last.in.format, last.in.title)
       IN IF matching = {}
          THEN /\ last.out.t = "str"
               /\ \/ IsPrefix(last.out.s, "sample_text")
                  \/ IsPrefix("sample_text", last.out.s)
          ELSE last.out
                  = S(StringRules[CHOOSE i \in matching : \A j \in matching : i <= j]
                         .example)

\* a title that holds the words of two rules, username and token, has got the
\* example of the earlier one
C22_Witness ==
    /\ GenerateFieldExampleDone("string")
    /\ last.in.title = "username token"
    /\ last.in.format = Absent
    /\ Cardinality(MatchingRules(last.in.format, last.in.title)) > 2
    /\ last.out = S("your_username")


----------------------------------------------------------------------------
(* C23 *)

\* the parameters of a template that have a name and a place
ParametersAt(template, name, place) ==
    {k \in 1..Len(Get(template, "parameters").l) :
        /\ Get(Get(template, "parameters").l[k], "name") = S(name)
        /\ Get(Get(template, "parameters").l[k], "in") = S(place)}

\* whether a parameter is the one the fallback makes for a name
IsSynthesized(param, name) ==
    /\ Get(param, "required") = B(TRUE)
    /\ Get(Get(param, "schema"), "type")
          = S(IF EndsWith(name, "_id") THEN "integer" ELSE "string")

\* whether a parameter is made of the stored field of its name
IsStored(param, name, endpoint) ==
    /\ endpoint.request_body # None
    /\ Has(json_loads(endpoint.request_body), "fields")
    /\ Has(Get(json_loads(endpoint.request_body), "fields"), name)
    /\ GetNone(Get(Get(json_loads(endpoint.request_body), "fields"), name), "in")
          = S("path")

\* C23: in every template of an answer of get_project_templates, each {name}
\* of the path of the endpoint has a parameter named name with in = path,
\* which is made of the stored field of that name or is the synthesized one
\* (required, integer when the name ends with _id, else string).
C23_PlaceholdersHavePathParameters ==
    TemplatesAnswered(last)
    => \A i \in 1..Len(last.out.templates) :
          LET endpoint == EndpointsOf(last.in.project_id)[i]
              names == FindPlaceholders(endpoint.path)
              template == last.out.templates[i]
          IN \A n \in 1..Len(names) :
                \E k \in ParametersAt(template, names[n], "path") :
                   \/ IsStored(Get(template, "parameters").l[k], names[n], endpoint)
                   \/ IsSynthesized(Get(template, "parameters").l[k], names[n])


----------------------------------------------------------------------------
(* C24 *)

\* a document with one of its path entries only
OnlyPath(document, path) ==
    Put(document, "paths", D(<<KV(path, Get(Get(document, "paths"), path))>>))

\* C24: for every endpoint extracted from an uploaded document,
\* extract_content_type_from_openapi(document, method, path) is what it is
\* for the document that holds the path entry of the endpoint alone.
C24_ContentTypeOfOwnOperation ==
    (last.op \in UploadOps /\ last.out.status = 200)
    => LET document == parse_openapi_content(UploadedText(last))
           records == EndpointsOf(last.out.project_id)
       IN \A i \in 1..Len(records) :
             extract_content_type_from_openapi(document, records[i].method,
                                               records[i].path)
                = extract_content_type_from_openapi(OnlyPath(document, records[i].path),
                                                    records[i].method, records[i].path)


----------------------------------------------------------------------------
(* C25 *)

\* the stored fields of an endpoint, as name and descriptor pairs
StoredFields(endpoint) ==
    IF endpoint.request_body # None /\ Has(json_loads(endpoint.request_body), "fields")
    THEN Get(json_loads(endpoint.request_body), "fields").d
    ELSE <<>>

IsParameterField(field) == GetNone(field[2], "in") \in {S("query"), S("path"), S("header")}

\* how many parameters of a template have a name
ParametersNamed(template, name) ==
    Cardinality({k \in 1..Len(Get(template, "parameters").l) :
                    Get(Get(template, "parameters").l[k], "name") = S(name)})

BodyKeys(template) == IF Has(template, "body") THEN KeySet(Get(template, "body")) ELSE {}

\* the names of the path that no stored field has
FallbackNames(endpoint) ==
    {name \in {FindPlaceholders(endpoint.path)[n] :
                  n \in 1..Len(FindPlaceholders(endpoint.path))} :
        \A f \in 1..Len(StoredFields(endpoint)) :
           StoredFields(endpoint)[f][1] # name \/ ~IsParameterField(StoredFields(endpoint)[f])}

\* C25: in every template of an answer of get_project_templates, each stored
\* field whose in is query, path or header is one parameter and no body key,
\* each other stored field is one body key and, the path fallback apart, no
\* parameter; the parameters are as many as the parameter fields and the
\* fallback names, and the body keys as many as the other fields.
C25_FieldsArePartitioned ==
    TemplatesAnswered(last)
    => \A i \in 1..Len(last.out.templates) :
          LET endpoint == EndpointsOf(last.in.project_id)[i]
              fields == StoredFields(endpoint)
              template == last.out.templates[i]
              params == {f \in 1..Len(fields) : IsParameterField(fields[f])}
              others == (1..Len(fields)) \ params
          IN /\ \A f \in params :
                   /\ ParametersNamed(template, fields[f][1]) = 1
                   /\ fields[f][1] \notin BodyKeys(template)
             /\ \A f \in others :
                   /\ fields[f][1] \in BodyKeys(template)
                   /\ ParametersNamed(template, fields[f][1])
                         = (IF fields[f][1] \in FallbackNames(endpoint) THEN 1 ELSE 0)
             /\ Len(Get(template, "parameters").l)
                   = Cardinality(params) + Cardinality(FallbackNames(endpoint))
             /\ Cardinality(BodyKeys(template)) = Cardinality(others)

\* the template of an endpoint whose stored fields are body fields, a path
\* parameter and a query parameter
C25_Witness ==
    /\ TemplatesAnswered(last)
    /\ \E i \in 1..Len(last.out.templates) :
          LET fields == StoredFields(EndpointsOf(last.in.project_id)[i])
          IN /\ \E f \in 1..Len(fields) : GetNone(fields[f][2], "in") = S("path")
             /\ \E f \in 1..Len(fields) : GetNone(fields[f][2], "in") = S("query")
             /\ \E f \in 1..Len(fields) : ~Has(fields[f][2], "in")
             /\ Len(Get(last.out.templates[i], "parameters").l) = 2
             /\ Cardinality(BodyKeys(last.out.templates[i])) = Len(fields) - 2


----------------------------------------------------------------------------
(* C26 *)

\* C26: the example of a string field that matches no rule is no longer
\* than the declared maxLength, whatever it is from 0 upward, and no shorter
\* than the declared minLength when maxLength is absent or not below it.
C26_ExampleLengthInBounds ==
    (GenerateFieldExampleDone("string")
        /\ MatchingRules(last.in.format, last.in.title) = {})
    => /\ last.in.max_length # Absent => Len(last.out.s) <= last.in.max_length.n
       /\ (/\ last.in.min_length # Absent
           /\ (last.in.max_length = Absent
                  \/ last.in.max_length.n >= last.in.min_length.n))
          => Len(last.out.s) >= last.in.min_length.n


----------------------------------------------------------------------------
(* C27 *)

\* how many operations the source of a request has: those extract_endpoints
\* visits in a document, one for a command
OperationCount(task) ==
    IF task.kind = "curl" THEN 1 ELSE Len(OperationsOf(task.openapi_json))

StoredUnder(project_id) ==
    Len(ProjectsWithId(project_id)) + Len(LogsOf(project_id)) + Len(EndpointsOf(project_id))

\* C27: a request that failed, in extract_endpoints after endpoints were
\* added to its session or at the database, and a request that is still under
\* way have no project, version log or endpoint in the tables; every project
\* in the tables has its version log and one endpoint for each operation of
\* its source; every version log and endpoint has its project; and an answer
\* of get_project_templates has one template for each operation of the
\* source of the project.
C27_UploadsCommitAllOrNothing ==
    /\ \A t \in 1..MaxTasks :
          tasks.of[t].pc # "done" => StoredUnder(tasks.of[t].project_id) = 0
    /\ \A i \in 1..Len(projects) :
          /\ Len(LogsOf(projects[i].id)) = 1
          /\ \E t \in 1..MaxTasks :
                /\ tasks.of[t].project_id = projects[i].id
                /\ Len(EndpointsOf(projects[i].id)) = OperationCount(tasks.of[t])
    /\ \A i \in 1..Len(version_logs) : Len(ProjectsWithId(version_logs[i].project_id)) = 1
    /\ \A i \in 1..Len(endpoints) : Len(ProjectsWithId(endpoints[i].project_id)) = 1
    /\ TemplatesAnswered(last)
          => \E t \in 1..MaxTasks :
                /\ tasks.of[t].project_id = last.in.project_id
                /\ Len(last.out.templates) = OperationCount(tasks.of[t])

\* the upload that flushed first failed after it had added an endpoint to
\* its session, the other one committed a document of several operations,
\* and the templates of a project were answered
C27_Witness ==
    /\ \E t \in 1..MaxTasks :
          /\ tasks.of[t].pc = "failed"
          /\ tasks.of[t].kind = "openapi"
          /\ Len(tasks.of[t].added) > 0
          /\ tasks.of[t].project_id = 1
    /\ \E t \in 1..MaxTasks :
          /\ tasks.of[t].pc = "done"
          /\ tasks.of[t].project_id = 2
          /\ OperationCount(tasks.of[t]) > 1
    /\ TemplatesAnswered(last)
    /\ Len(last.out.templates) > 1

----------------------------------------------------------------------------
(* C28 *)

\* the source a version log holds
SourceOf(version_log) == json_loads(version_log.raw_openapi)
FromCurl(source) == IsDict(source) /\ Has(source, "parsed_from")

\* the endpoints the upload handlers extract from a source for project_id
ExtractedFrom(source, project_id) ==
    IF FromCurl(source)
    THEN <<NoId(curl_endpoint(parse_curl(Get(source, "curl").s), 0, project_id))>>
    ELSE extract_endpoints(source, project_id, AiAnswers).added

\* C28: after any sequence of document and command uploads every project
\* has exactly one version log, the endpoints of the project are those
\* extracted from the source in that log, and get_project_templates never
\* meets several version logs of one project.
C28_OneVersionLogPerProject ==
    /\ \A i \in 1..Len(projects) :
          /\ Len(VersionLogsOf(projects[i].id)) = 1
          /\ NoIds(EndpointsOf(projects[i].id))
                = ExtractedFrom(SourceOf(VersionLogsOf(projects[i].id)[1]), projects[i].id)
    /\ last.op = "get_project_templates"
          => last.out.status \in {200, 404}

\* a document and a command were uploaded and the templates of the later
\* project were answered
C28_Witness ==
    /\ Len(projects) = 2
    /\ \E i, j \in 1..2 :
          /\ FromCurl(SourceOf(VersionLogsOf(i)[1]))
          /\ ~FromCurl(SourceOf(VersionLogsOf(j)[1]))
    /\ TemplatesAnswered(last)
    /\ last.in.project_id = 2


----------------------------------------------------------------------------
(* C29 *)

\* the fields of the request-body schema of an operation: those of the first
\* content entry
BodyProperties(operation, document) ==
    IF /\ Has(operation, "requestBody")
       /\ IsDict(Get(operation, "requestBody"))
       /\ IsDict(GetOr(Get(operation, "requestBody"), "content", None))
       /\ Len(Get(Get(operation, "requestBody"), "content").d) > 0
    THEN FieldsOfEntry(Get(Get(operation, "requestBody"), "content").d[1], document)
    ELSE EmptyDict

\* the parameters of an operation whose name a property of the body has
SharedParameters(operation, document) ==
    IF Has(operation, "parameters") /\ Get(operation, "parameters") # None
    THEN {k \in 1..Len(Get(operation, "parameters").l) :
             /\ IsStr(GetNone(Get(operation, "parameters").l[k], "name"))
             /\ Has(BodyProperties(operation, document),
                    Get(Get(operation, "parameters").l[k], "name").s)}
    ELSE {}

PositionsOf(names, name) == {j \in 1..Len(names) : names[j] = name}

\* C29: when a parameter of an operation has the name of a property of the
\* request-body schema, the stored fields have one entry of that name, at the
\* position of the body property, with the in, required and type of the
\* parameter; and the template of the endpoint has a parameter of that name
\* and no body key of that name.
C29_ParameterReplacesBodyProperty ==
    \A p \in 1..Len(projects) :
       LET document == SourceOf(VersionLogsOf(projects[p].id)[1])
           records == EndpointsOf(projects[p].id)
           shared(i) == SharedParameters(OperationAt(document, i), document)
           param(i, k) == Get(OperationAt(document, i), "parameters").l[k]
           name(i, k) == Get(param(i, k), "name").s
       IN ~FromCurl(document)
          => /\ \A i \in 1..Len(records) : \A k \in shared(i) :
                   LET fields == Get(json_loads(records[i].request_body), "fields")
                   IN /\ PositionsOf(Keys(fields), name(i, k))
                           = PositionsOf(Keys(BodyProperties(OperationAt(document, i),
                                                             document)),
                                         name(i, k))
                      /\ Cardinality(PositionsOf(Keys(fields), name(i, k))) = 1
                      /\ FieldOfParameter(fields, param(i, k))
             /\ (TemplatesAnswered(last) /\ last.in.project_id = projects[p].id)
                   => \A i \in 1..Len(records) : \A k \in shared(i) :
                         /\ ParametersNamed(last.out.templates[i], name(i, k)) >= 1
                         /\ name(i, k) \notin BodyKeys(last.out.templates[i])


----------------------------------------------------------------------------
(* Specification SpecTmp: services/code_parser.py and endpoints/code.py,   *)
(* the temporary directories of upload_backend_zip and upload_github_repo. *)
(* Here tasks is the file system: made counts the calls of                 *)
(* tempfile.mkdtemp, tempdirs are the directories it made that exist.      *)
(* Sizes are in MB.                                                        *)

MaxDirs == 3

\* lines 18-19
MAX_ZIP_SIZE == 100
MAX_REPO_SIZE == 500

\* tempfile.mkdtemp(): a new directory, named by its number
mkdtemp(fs) == [made |-> fs.made + 1, tempdirs |-> fs.tempdirs \cup {fs.made + 1}]

\* shutil.rmtree(dir, ignore_errors=True)
rmtree(fs, dir) == [fs EXCEPT !.tempdirs = @ \ {dir}]

\* what a function leaves: the file system, the status of the HTTPException
\* it raised (200 when it returned) and the directory it returned
Left(fs, status, dir) == [fs |-> fs, status |-> status, dir |-> dir]

\* lines 35-79.  zip.size is len(zip_bytes), zip.kind tells whether
\* ZipFile reads the bytes ("zip"), raises BadZipFile ("bad") or writing
\* raises OSError ("oserror"), zip.declared is the sum of the file_size
\* entries and zip.actual what get_directory_size finds
unzip_backend_code(zip, fs) ==
    IF zip.size > MAX_ZIP_SIZE THEN Left(fs, 413, 0)
    ELSE LET made == mkdtemp(fs)
             tmp_dir == made.made
         IN IF zip.kind = "oserror" THEN Left(rmtree(made, tmp_dir), 500, 0)
            ELSE IF zip.kind = "bad" THEN Left(rmtree(made, tmp_dir), 400, 0)
            ELSE IF zip.declared > MAX_ZIP_SIZE * 10
            THEN Left(rmtree(made, tmp_dir), 413, 0)
            ELSE IF zip.actual > MAX_ZIP_SIZE * 10
            THEN Left(rmtree(rmtree(made, tmp_dir), tmp_dir), 413, 0)
            ELSE Left(made, 200, tmp_dir)

\* lines 81-106: what subprocess.run does is git.run: it returns
\* ("returned", with git.returncode and git.stderr), or raises TimeoutExpired
\* ("timeout"), FileNotFoundError ("nogit") or another exception ("error")
run_git_clone_sync(git) ==
    IF git.run = "timeout" THEN [status |-> 408]
    ELSE IF git.run = "nogit" THEN [status |-> 500]
    ELSE IF git.run = "error" THEN [status |-> 500]
    ELSE [status |-> 200, returncode |-> git.returncode, stderr |-> git.stderr]

\* lines 133-142: the status for a non-zero exit of git
clone_error_status(stderr) ==
    IF stderr = "repository not found" THEN 404
    ELSE IF stderr = "permission denied" THEN 403
    ELSE 400

\* lines 108-158.  repo_url is "empty", "other" or "github", as the patterns
\* of lines 114-118 tell; git.size is what get_directory_size finds
clone_github_repo(repo_url, git, fs) ==
    IF repo_url = "empty" THEN Left(fs, 400, 0)
    ELSE IF repo_url # "github" THEN Left(fs, 400, 0)
    ELSE LET made == mkdtemp(fs)
             parent == made.made
             ran == run_git_clone_sync(git)
         IN IF ran.status # 200 THEN Left(made, ran.status, 0)
            ELSE IF ran.returncode # 0
            THEN Left(rmtree(made, parent), clone_error_status(ran.stderr), 0)
            ELSE IF git.size > MAX_REPO_SIZE THEN Left(rmtree(made, parent), 413, 0)
            ELSE Left(made, 200, parent)

\* code.py lines 60-99 and 124-164: what the handlers do with the directory
\* they were given.  python tells whether extract_python_files finds code,
\* ai whether generate_openapi_doc answers
generate_from(left, python, ai) ==
    IF left.status # 200 THEN [fs |-> left.fs, status |-> left.status]
    ELSE [fs |-> IF left.dir \in left.fs.tempdirs THEN rmtree(left.fs, left.dir)
                 ELSE left.fs,
          status |-> IF ~python THEN 400 ELSE IF ~ai THEN 500 ELSE 200]

\* code.py lines 25-99
upload_backend_zip(file, format, python, ai) ==
    LET in == [file |-> file, format |-> format, python |-> python, ai |-> ai]
        answer(status, fs) ==
            /\ last' = [op |-> "upload_backend_zip", in |-> in, out |-> [status |-> status]]
            /\ tasks' = fs
    IN IF format \notin {"json", "yaml"} THEN answer(400, tasks)
       ELSE IF ~file.zip_name THEN answer(400, tasks)
       ELSE IF file.size_known /\ file.zip.size > MAX_ZIP_SIZE THEN answer(413, tasks)
       ELSE \E done \in {generate_from(unzip_backend_code(file.zip, tasks), python, ai)} :
               answer(done.status, done.fs)

\* code.py lines 101-164
upload_github_repo(repo_url, format, git, python, ai) ==
    LET in == [repo_url |-> repo_url, format |-> format, git |-> git,
               python |-> python, ai |-> ai]
        answer(status, fs) ==
            /\ last' = [op |-> "upload_github_repo", in |-> in, out |-> [status |-> status]]
            /\ tasks' = fs
    IN IF format \notin {"json", "yaml"} THEN answer(400, tasks)
       ELSE \E done \in {generate_from(clone_github_repo(repo_url, git, tasks), python, ai)} :
               answer(done.status, done.fs)

DocFormats == {"json", "yaml", "xml"}

Zips ==
    {[size |-> 1, kind |-> "zip", declared |-> 1, actual |-> 1],
     [size |-> 1, kind |-> "bad", declared |-> 0, actual |-> 0],
     [size |-> 1, kind |-> "oserror", declared |-> 1, actual |-> 0],
     [size |-> 1, kind |-> "zip", declared |-> 1001, actual |-> 0],
     [size |-> 1, kind |-> "zip", declared |-> 1, actual |-> 1001],
     [size |-> 101, kind |-> "zip", declared |-> 101, actual |-> 101]}

ZipFiles == [zip_name : BOOLEAN, size_known : BOOLEAN, zip : Zips]

GitRuns ==
    {[run |-> "returned", returncode |-> 0, stderr |-> "", size |-> 1],
     [run |-> "returned", returncode |-> 0, stderr |-> "", size |-> 501],
     [run |-> "returned", returncode |-> 128, stderr |-> "repository not found", size |-> 0],
     [run |-> "returned", returncode |-> 128, stderr |-> "permission denied", size |-> 0],
     [run |-> "returned", returncode |-> 128, stderr |-> "", size |-> 0],
     [run |-> "timeout", returncode |-> 0, stderr |-> "", size |-> 0],
     [run |-> "nogit", returncode |-> 0, stderr |-> "", size |-> 0],
     [run |-> "error", returncode |-> 0, stderr |-> "", size |-> 0]}

RepoUrls == {"empty", "other", "github"}

InitTmp ==
    /\ projects = <<>>
    /\ endpoints = <<>>
    /\ version_logs = <<>>
    /\ last = [op |-> "none", in |-> None, out |-> None]
    /\ tasks = [made |-> 0, tempdirs |-> {}]

UploadBackendZip ==
    /\ tasks.made < MaxDirs
    /\ \E file \in ZipFiles, format \in DocFormats, python \in BOOLEAN, ai \in BOOLEAN :
          upload_backend_zip(file, format, python, ai)
    /\ UNCHANGED store

UploadGithubRepo ==
    /\ tasks.made < MaxDirs
    /\ \E repo_url \in RepoUrls, format \in DocFormats, git \in GitRuns,
          python \in BOOLEAN, ai \in BOOLEAN :
          upload_github_repo(repo_url, format, git, python, ai)
    /\ UNCHANGED store

NextTmp == UploadBackendZip \/ UploadGithubRepo

SpecTmp == InitTmp /\ [][NextTmp]_vars

----------------------------------------------------------------------------
(* C30 *)

CodeUploads == {"upload_backend_zip", "upload_github_repo"}

\* C30: when a request of upload_backend_zip or upload_github_repo has
\* completed, with whatever answer, no directory made by tempfile.mkdtemp
\* exists.
C30_TemporaryDirectoriesRemoved ==
    last.op \in CodeUploads => tasks.tempdirs = {}

====
